---- MODULE Spec2Model ----
(***************************************************************************)
(* A model of src/pdf_metadata_scanner.py: the filename date inference     *)
(* (parse_date_from_parentheses), the filename normaliser (clean_filename) *)
(* and the filename metadata parser (parse_filename_metadata).             *)
(*                                                                         *)
(* A filename is a sequence of one-character strings.  The regular         *)
(* expressions of the source are kept as data (a syntax tree each) and run *)
(* by a backtracking matcher with the priorities of Python's re module:    *)
(* leftmost match, alternatives in order, greedy or lazy repetition.       *)
(***************************************************************************)
EXTENDS Integers, Sequences, FiniteSets, TLC

(***************************************************************************)
(* Characters                                                              *)
(***************************************************************************)
Digit == {"0", "1", "2", "3", "4", "5", "6", "7", "8", "9"}

LowerCase == {"a", "b", "c", "d", "e", "f", "g", "h", "i", "j", "k", "l", "m",
              "n", "o", "p", "q", "r", "s", "t", "u", "v", "w", "x", "y", "z"}

UpperCase == {"A", "B", "C", "D", "E", "F", "G", "H", "I", "J", "K", "L", "M",
              "N", "O", "P", "Q", "R", "S", "T", "U", "V", "W", "X", "Y", "Z"}

\* [A-Za-z]
AsciiLetter == LowerCase \cup UpperCase

\* \s : the only whitespace character of the modelled filenames is the space
WhiteSpace == {" "}

\* [\(\[\{]
OpenBracket == {"(", "[", "{"}

\* [\)\]\}]
CloseBracket == {")", "]", "}"}

\* str.lower() of one character
LowerOf(c) ==
  CASE c = "A" -> "a" [] c = "B" -> "b" [] c = "C" -> "c" [] c = "D" -> "d"
    [] c = "E" -> "e" [] c = "F" -> "f" [] c = "G" -> "g" [] c = "H" -> "h"
    [] c = "I" -> "i" [] c = "J" -> "j" [] c = "K" -> "k" [] c = "L" -> "l"
    [] c = "M" -> "m" [] c = "N" -> "n" [] c = "O" -> "o" [] c = "P" -> "p"
    [] c = "Q" -> "q" [] c = "R" -> "r" [] c = "S" -> "s" [] c = "T" -> "t"
    [] c = "U" -> "u" [] c = "V" -> "v" [] c = "W" -> "w" [] c = "X" -> "x"
    [] c = "Y" -> "y" [] c = "Z" -> "z" [] OTHER -> c

\* str.lower()
Lower(s) == [i \in 1..Len(s) |-> LowerOf(s[i])]

(***************************************************************************)
(* Regular expressions as data.  t is the node type:                       *)
(*   "in"   one character of the set cs                                    *)
(*   "ci"   one character whose lower case is in cs (re.IGNORECASE)        *)
(*   "not"  one character outside cs ("." is "not" of the newline)         *)
(*   "cat"  the nodes rs one after the other                               *)
(*   "alt"  the first of the alternatives rs that lets the rest match      *)
(*   "rep"  r repeated lo..hi times (hi = -1: unbounded), greedy or lazy   *)
(*   "grp"  capture group n around r;  "end" closes it                     *)
(*   "bos"  ^   "eos"  $                                                   *)
(***************************************************************************)
In(cs) == [t |-> "in", cs |-> cs]

InCI(cs) == [t |-> "ci", cs |-> cs]

NotIn(cs) == [t |-> "not", cs |-> cs]

AnyChar == NotIn({"\n"})

Cat(rs) == [t |-> "cat", rs |-> rs]

Alt(rs) == [t |-> "alt", rs |-> rs]

Rep(r, lo, hi) == [t |-> "rep", r |-> r, lo |-> lo, hi |-> hi, greedy |-> TRUE]

RepLazy(r, lo, hi) == [t |-> "rep", r |-> r, lo |-> lo, hi |-> hi, greedy |-> FALSE]

Star(r) == Rep(r, 0, -1)

Plus(r) == Rep(r, 1, -1)

Opt(r) == Rep(r, 0, 1)

StarLazy(r) == RepLazy(r, 0, -1)

Grp(n, r) == [t |-> "grp", n |-> n, r |-> r]

Bos == [t |-> "bos"]

Eos == [t |-> "eos"]

\* a literal string
Lit(s) == Cat([i \in 1..Len(s) |-> In({s[i]})])

\* a literal string under re.IGNORECASE
LitCI(s) == Cat([i \in 1..Len(s) |-> InCI({LowerOf(s[i])})])

\* no group has matched
NoGroups == <<<<0, 0>>, <<0, 0>>, <<0, 0>>>>

NoMatch == [ok |-> FALSE, b |-> 0, e |-> 0, g |-> NoGroups]

\* one repetition less to go
RepLess(h) ==
  [h EXCEPT !.lo = IF @ > 0 THEN @ - 1 ELSE 0,
            !.hi = IF @ = -1 THEN -1 ELSE @ - 1]

\* whether character c is matched by the one-character node h
CharOk(h, c) ==
  CASE h.t = "in" -> c \in h.cs
    [] h.t = "ci" -> LowerOf(c) \in h.cs
    [] h.t = "not" -> c \notin h.cs
    [] OTHER -> FALSE

\* the number of characters from position i on that the one-character node h
\* matches in a row, at most cap of them (cap = -1: no limit)
RECURSIVE RunLen(_, _, _, _)
RunLen(h, s, i, cap) ==
  IF cap = 0 \/ i > Len(s) THEN 0
  ELSE IF ~CharOk(h, s[i]) THEN 0
  ELSE 1 + RunLen(h, s, i + 1, IF cap = -1 THEN -1 ELSE cap - 1)

\* the one-character node every match of re starts with; [t |-> "any"] when
\* re gives none (it starts with an optional part or an alternative)
RECURSIVE Leading(_)
Leading(re) ==
  CASE re.t \in {"in", "ci", "not"} -> re
    [] re.t = "cat" /\ Len(re.rs) > 0 -> Leading(Head(re.rs))
    [] re.t = "grp" -> Leading(re.r)
    [] re.t = "rep" /\ re.lo > 0 -> Leading(re.r)
    [] OTHER -> [t |-> "any"]

\* whether a match that starts with the node first can begin at position p
MayBegin(first, s, p) == first.t = "any" \/ (p <= Len(s) /\ CharOk(first, s[p]))

SetMin(S) == CHOOSE x \in S : \A y \in S : x <= y

SetMax(S) == CHOOSE x \in S : \A y \in S : x >= y

(***************************************************************************)
(* The backtracking matcher: k is the sequence of nodes still to match at  *)
(* position i of s, g the groups captured so far.  The result is the first *)
(* match in the order in which Python's re explores them.  A repetition of *)
(* a one-character node takes the largest (greedy) or smallest (lazy)      *)
(* number of characters that lets the rest match, which is what            *)
(* backtracking finds first; rest[n] is the match of what follows after n  *)
(* characters, none where its first character rules it out.                *)
(***************************************************************************)
RECURSIVE MatchAt(_, _, _, _)
MatchAt(k, s, i, g) ==
  IF Len(k) = 0 THEN [ok |-> TRUE, b |-> 0, e |-> i, g |-> g]
  ELSE
    LET h == Head(k)
        r == Tail(k)
    IN CASE h.t \in {"in", "ci", "not"} ->
              IF i <= Len(s) /\ CharOk(h, s[i]) THEN MatchAt(r, s, i + 1, g) ELSE NoMatch
         [] h.t = "cat" -> MatchAt(h.rs \o r, s, i, g)
         [] h.t = "alt" ->
              IF Len(h.rs) = 0 THEN NoMatch
              ELSE LET first == MatchAt(<<Head(h.rs)>> \o r, s, i, g)
                   IN IF first.ok THEN first
                      ELSE MatchAt(<<Alt(Tail(h.rs))>> \o r, s, i, g)
         [] h.t = "rep" /\ h.r.t \in {"in", "ci", "not"} /\ h.lo = h.hi ->
              IF i + h.lo - 1 <= Len(s) /\ \A j \in i..(i + h.lo - 1) : CharOk(h.r, s[j])
              THEN MatchAt(r, s, i + h.lo, g)
              ELSE NoMatch
         [] h.t = "rep" /\ h.r.t \in {"in", "ci", "not"} /\ h.lo # h.hi ->
              LET run == RunLen(h.r, s, i, h.hi)
                  first == Leading(Cat(r))
                  rest == [n \in h.lo..run |->
                             IF MayBegin(first, s, i + n) THEN MatchAt(r, s, i + n, g)
                             ELSE NoMatch]
                  counts == {n \in h.lo..run : rest[n].ok}
              IN IF counts = {} THEN NoMatch
                 ELSE rest[IF h.greedy THEN SetMax(counts) ELSE SetMin(counts)]
         [] h.t = "rep" /\ h.r.t \notin {"in", "ci", "not"} ->
              IF h.lo > 0 THEN MatchAt(<<h.r, RepLess(h)>> \o r, s, i, g)
              ELSE IF h.hi = 0 THEN MatchAt(r, s, i, g)
              ELSE IF h.greedy
                THEN LET more == MatchAt(<<h.r, RepLess(h)>> \o r, s, i, g)
                     IN IF more.ok THEN more ELSE MatchAt(r, s, i, g)
                ELSE LET stop == MatchAt(r, s, i, g)
                     IN IF stop.ok THEN stop
                        ELSE MatchAt(<<h.r, RepLess(h)>> \o r, s, i, g)
         [] h.t = "grp" ->
              MatchAt(<<h.r, [t |-> "end", n |-> h.n, st |-> i]>> \o r, s, i, g)
         [] h.t = "end" -> MatchAt(r, s, i, [g EXCEPT ![h.n] = <<h.st, i>>])
         [] h.t = "bos" -> IF i = 1 THEN MatchAt(r, s, i, g) ELSE NoMatch
         [] h.t = "eos" -> IF i = Len(s) + 1 THEN MatchAt(r, s, i, g) ELSE NoMatch

\* re.match(re, s): a match starting at the first character
ReMatch(re, s) == [MatchAt(<<re>>, s, 1, NoGroups) EXCEPT !.b = 1]

\* the match of re at every position of s: none where the first character
\* rules it out
MatchesOf(re, s, first) ==
  [p \in 1..(Len(s) + 1) |->
     IF MayBegin(first, s, p)
     THEN [MatchAt(<<re>>, s, p, NoGroups) EXCEPT !.b = p]
     ELSE NoMatch]

\* the text of group n of match m in s ("" when the group did not match)
Group(s, m, n) == SubSeq(s, m.g[n][1], m.g[n][2] - 1)

\* the text of the whole match, m.group(0)
Group0(s, m) == SubSeq(s, m.b, m.e - 1)

RECURSIVE FollowedBy(_, _)

\* where the search goes on after match m: at its end, one further after an
\* empty match
After(m) == IF m.e > m.b THEN m.e ELSE m.e + 1

\* re.finditer: the non-overlapping matches among ms (the match at every
\* position), left to right: the leftmost match at or after position from,
\* then the leftmost one at or after its end.
RECURSIVE FindIterFrom(_, _)
FindIterFrom(ms, from) ==
  IF \A p \in from..Len(ms) : ~ms[p].ok THEN <<>>
  ELSE FollowedBy(ms[SetMin({p \in from..Len(ms) : ms[p].ok})], ms)

\* match m and the matches after it
FollowedBy(m, ms) == <<m>> \o FindIterFrom(ms, After(m))

FindIter(re, s) == FindIterFrom(MatchesOf(re, s, Leading(re)), 1)

\* re.sub(re, repl, s) for a replacement without group references: the text
\* between the matches ms, with repl in the place of each match
RECURSIVE Splice(_, _, _, _)
Splice(s, ms, repl, from) ==
  IF Len(ms) = 0 THEN SubSeq(s, from, Len(s))
  ELSE SubSeq(s, from, Head(ms).b - 1) \o repl \o Splice(s, Tail(ms), repl, Head(ms).e)

ReSub(re, repl, s) == Splice(s, FindIter(re, s), repl, 1)

(***************************************************************************)
(* Strings                                                                 *)
(***************************************************************************)
\* Python's None, for a value that is otherwise a non-empty string
None == <<>>

\* s.lstrip(cs), s.rstrip(cs), s.strip(cs): cs is the set of stripped characters
RECURSIVE LStrip(_, _)
LStrip(s, cs) == IF Len(s) > 0 /\ Head(s) \in cs THEN LStrip(Tail(s), cs) ELSE s

RECURSIVE RStrip(_, _)
RStrip(s, cs) ==
  IF Len(s) > 0 /\ s[Len(s)] \in cs THEN RStrip(SubSeq(s, 1, Len(s) - 1), cs) ELSE s

Strip(s, cs) == RStrip(LStrip(s, cs), cs)

\* s.isdigit()
IsDigit(s) == Len(s) > 0 /\ \A i \in 1..Len(s) : s[i] \in Digit

\* the code point of a character of a date string
Ord(c) ==
  CASE c = "-" -> 45 [] c = "0" -> 48 [] c = "1" -> 49 [] c = "2" -> 50
    [] c = "3" -> 51 [] c = "4" -> 52 [] c = "5" -> 53 [] c = "6" -> 54
    [] c = "7" -> 55 [] c = "8" -> 56 [] c = "9" -> 57

\* a < b for Python strings (code point order)
RECURSIVE StrLess(_, _)
StrLess(a, b) ==
  IF Len(b) = 0 THEN FALSE
  ELSE IF Len(a) = 0 THEN TRUE
  ELSE IF Head(a) = Head(b) THEN StrLess(Tail(a), Tail(b))
  ELSE Ord(Head(a)) < Ord(Head(b))

\* max(xs) of a non-empty list of strings
StrMax(xs) ==
  xs[CHOOSE j \in 1..Len(xs) : \A i \in 1..Len(xs) : ~StrLess(xs[j], xs[i])]

\* min(xs) of a non-empty list of strings
RECURSIVE StrMin(_)
StrMin(xs) ==
  IF Len(xs) = 1 THEN xs[1]
  ELSE LET m == StrMin(Tail(xs))
       IN IF StrLess(m, Head(xs)) THEN m ELSE Head(xs)

\* int(s) of a string of decimal digits
DigitValue(c) == Ord(c) - 48

RECURSIVE ToInt(_)
ToInt(s) == IF Len(s) = 0 THEN 0 ELSE 10 * ToInt(SubSeq(s, 1, Len(s) - 1)) + DigitValue(s[Len(s)])

(***************************************************************************)
(* datetime.strptime(s, "%Y-%m-%d"): the format is turned into the regular *)
(* expression below (one group per directive), which must match the whole  *)
(* of s; the fields must then form a date of the proleptic Gregorian       *)
(* calendar with 1 <= year.  TRUE: a datetime is returned.  FALSE:         *)
(* ValueError is raised.                                                   *)
(***************************************************************************)
StrptimeFormat ==
  Cat(<<Grp(1, Rep(In(Digit), 4, 4)),
        In({"-"}),
        Grp(2, Alt(<<Cat(<<In({"1"}), In({"0", "1", "2"})>>),
                     Cat(<<In({"0"}), In(Digit \ {"0"})>>),
                     In(Digit \ {"0"})>>)),
        In({"-"}),
        Grp(3, Alt(<<Cat(<<In({"3"}), In({"0", "1"})>>),
                     Cat(<<In({"1", "2"}), In(Digit)>>),
                     Cat(<<In({"0"}), In(Digit \ {"0"})>>),
                     In(Digit \ {"0"}),
                     Cat(<<In({" "}), In(Digit \ {"0"})>>)>>))>>)

IsLeap(y) == (y % 4 = 0 /\ y % 100 # 0) \/ y % 400 = 0

DaysInMonth(y, m) ==
  IF m = 2 THEN (IF IsLeap(y) THEN 29 ELSE 28)
  ELSE IF m \in {4, 6, 9, 11} THEN 30 ELSE 31

\* the fields y, mo, d form a date
IsDate(y, mo, d) == y >= 1 /\ d <= DaysInMonth(y, mo)

\* m is a match of the format with the whole of s, and its fields form a date
StrptimeFound(s, m) ==
  /\ m.ok
  /\ m.e = Len(s) + 1
  /\ IsDate(ToInt(Group(s, m, 1)), ToInt(Group(s, m, 2)),
            ToInt(Strip(Group(s, m, 3), {" "})))

Strptime(s) == StrptimeFound(s, ReMatch(StrptimeFormat, s))

(***************************************************************************)
(* parse_date_from_parentheses: the patterns                               *)
(***************************************************************************)
\* \d{4}, \d{2}, \d{8}
D4 == Rep(In(Digit), 4, 4)

D2 == Rep(In(Digit), 2, 2)

D8 == Rep(In(Digit), 8, 8)

Open == In(OpenBracket)

Close == In(CloseBracket)

Dash == In({"-"})

\* (?:January|February|...|December), always used with re.IGNORECASE
MonthNames ==
  Alt(<<LitCI(<<"J", "a", "n", "u", "a", "r", "y">>),
        LitCI(<<"F", "e", "b", "r", "u", "a", "r", "y">>),
        LitCI(<<"M", "a", "r", "c", "h">>),
        LitCI(<<"A", "p", "r", "i", "l">>),
        LitCI(<<"M", "a", "y">>),
        LitCI(<<"J", "u", "n", "e">>),
        LitCI(<<"J", "u", "l", "y">>),
        LitCI(<<"A", "u", "g", "u", "s", "t">>),
        LitCI(<<"S", "e", "p", "t", "e", "m", "b", "e", "r">>),
        LitCI(<<"O", "c", "t", "o", "b", "e", "r">>),
        LitCI(<<"N", "o", "v", "e", "m", "b", "e", "r">>),
        LitCI(<<"D", "e", "c", "e", "m", "b", "e", "r">>)>>)

\* (?:Jan|Feb|...|Dec), always used with re.IGNORECASE
ShortMonthNames ==
  Alt(<<LitCI(<<"J", "a", "n">>), LitCI(<<"F", "e", "b">>), LitCI(<<"M", "a", "r">>),
        LitCI(<<"A", "p", "r">>), LitCI(<<"M", "a", "y">>), LitCI(<<"J", "u", "n">>),
        LitCI(<<"J", "u", "l">>), LitCI(<<"A", "u", "g">>), LitCI(<<"S", "e", "p">>),
        LitCI(<<"O", "c", "t">>), LitCI(<<"N", "o", "v">>), LitCI(<<"D", "e", "c">>)>>)

\* [\(\[\{](\d{4}-\d{2}-\d{2})[\)\]\}]
full_date == Cat(<<Open, Grp(1, Cat(<<D4, Dash, D2, Dash, D2>>)), Close>>)

\* the same without the .*? after the eight digits: nothing may follow them in
\* the bracket
compact_date_bare == Cat(<<Open, StarLazy(AnyChar), Grp(1, D8), Close>>)

\* [\(\[\{].*?(\d{8}).*?[\)\]\}]
compact_date == Cat(<<Open, StarLazy(AnyChar), Grp(1, D8), StarLazy(AnyChar), Close>>)

\* [\(\[\{](\d{4})[-_\.](\d{2})[\)\]\}]   (in the table, used by no code)
year_month == Cat(<<Open, Grp(1, D4), In({"-", "_", "."}), Grp(2, D2), Close>>)

\* [\(\[\{](\d{4})[\)\]\}]
year == Cat(<<Open, Grp(1, D4), Close>>)

\* [\(\[\{]((?:January|...))\s+(\d{4})[\)\]\}]
text_month_year ==
  Cat(<<Open, Grp(1, MonthNames), Plus(In(WhiteSpace)), Grp(2, D4), Close>>)

\* the same without the .*? between the two brackets: the month bracket would
\* have to touch the year bracket
text_month_range_adjacent ==
  Cat(<<Open, Grp(1, D4), Close,
        Open, Grp(2, MonthNames), Star(NotIn(CloseBracket)), Close>>)

\* [\(\[\{](\d{4})[\)\]\}].*?[\(\[\{]((?:January|...))[^\)\]\}]*[\)\]\}]
text_month_range ==
  Cat(<<Open, Grp(1, D4), Close, StarLazy(AnyChar),
        Open, Grp(2, MonthNames), Star(NotIn(CloseBracket)), Close>>)

\* the same with the groups exchanged: group 1 would be the end year
year_range_end == Cat(<<Open, Grp(2, D4), Dash, Grp(1, D4), Close>>)

\* [\(\[\{](\d{4})-(\d{4})[\)\]\}]
year_range == Cat(<<Open, Grp(1, D4), Dash, Grp(2, D4), Close>>)

\* [\(\[\{].*?(\d{4}-\d{4})_\d+[\)\]\}]
expense_date ==
  Cat(<<Open, StarLazy(AnyChar), Grp(1, Cat(<<D4, Dash, D4>>)), In({"_"}),
        Plus(In(Digit)), Close>>)

\* [\(\[\{]((?:Jan|...))\s+(\d{4})[\)\]\}]
short_month ==
  Cat(<<Open, Grp(1, ShortMonthNames), Plus(In(WhiteSpace)), Grp(2, D4), Close>>)

\* month_map.get(name): the two digits of the month, None for a missing key
month_map(name) ==
  CASE name = <<"j", "a", "n", "u", "a", "r", "y">> -> <<"0", "1">>
    [] name = <<"f", "e", "b", "r", "u", "a", "r", "y">> -> <<"0", "2">>
    [] name = <<"m", "a", "r", "c", "h">> -> <<"0", "3">>
    [] name = <<"a", "p", "r", "i", "l">> -> <<"0", "4">>
    [] name = <<"m", "a", "y">> -> <<"0", "5">>
    [] name = <<"j", "u", "n", "e">> -> <<"0", "6">>
    [] name = <<"j", "u", "l", "y">> -> <<"0", "7">>
    [] name = <<"a", "u", "g", "u", "s", "t">> -> <<"0", "8">>
    [] name = <<"s", "e", "p", "t", "e", "m", "b", "e", "r">> -> <<"0", "9">>
    [] name = <<"o", "c", "t", "o", "b", "e", "r">> -> <<"1", "0">>
    [] name = <<"n", "o", "v", "e", "m", "b", "e", "r">> -> <<"1", "1">>
    [] name = <<"d", "e", "c", "e", "m", "b", "e", "r">> -> <<"1", "2">>
    [] name = <<"j", "a", "n">> -> <<"0", "1">>
    [] name = <<"f", "e", "b">> -> <<"0", "2">>
    [] name = <<"m", "a", "r">> -> <<"0", "3">>
    [] name = <<"a", "p", "r">> -> <<"0", "4">>
    [] name = <<"j", "u", "n">> -> <<"0", "6">>
    [] name = <<"j", "u", "l">> -> <<"0", "7">>
    [] name = <<"a", "u", "g">> -> <<"0", "8">>
    [] name = <<"s", "e", "p">> -> <<"0", "9">>
    [] name = <<"o", "c", "t">> -> <<"1", "0">>
    [] name = <<"n", "o", "v">> -> <<"1", "1">>
    [] name = <<"d", "e", "c">> -> <<"1", "2">>
    [] OTHER -> None

(***************************************************************************)
(* parse_date_from_parentheses                                             *)
(***************************************************************************)
\* the group-1 texts of re.findall(re, s)
Groups1(s, ms) == [j \in 1..Len(ms) |-> Group(s, ms[j], 1)]

FindAll1(re, s) == Groups1(s, FindIter(re, s))

\* first pass, one match of full_date or compact_date: the date string that
\* is handed to strptime
FormatFull(date_str) ==
  IF Len(date_str) = 8 /\ IsDigit(date_str)
  THEN SubSeq(date_str, 1, 4) \o <<"-">> \o SubSeq(date_str, 5, 6) \o <<"-">>
       \o SubSeq(date_str, 7, 8)
  ELSE date_str

\* one match of expense_date, "YYYY-MMDD": year, mmdd = match.split('-')
FormatExpense(match) ==
  SubSeq(match, 1, 4) \o <<"-">> \o SubSeq(match, 6, 7) \o <<"-">> \o SubSeq(match, 8, 9)

\* the strings of xs that strptime accepts (the others raise ValueError,
\* which the loop catches: continue)
Validated(xs) == SelectSeq(xs, Strptime)

\* the list dates after the first pass and the expense pass
FormatFullAll(matches) == [j \in 1..Len(matches) |-> FormatFull(matches[j])]

FormatExpenseAll(matches) == [j \in 1..Len(matches) |-> FormatExpense(matches[j])]

FullDates(filename) ==
  Validated(FormatFullAll(FindAll1(full_date, filename)))
  \o Validated(FormatFullAll(FindAll1(compact_date, filename)))
  \o Validated(FormatExpenseAll(FindAll1(expense_date, filename)))

\* for match in matches: the first match whose month name (group n) is a key
\* of month_map; NoMatch when there is none
RECURSIVE FirstWithMonth(_, _, _)
FirstWithMonth(s, ms, n) ==
  IF Len(ms) = 0 THEN NoMatch
  ELSE IF month_map(Lower(Group(s, Head(ms), n))) # None THEN Head(ms)
  ELSE FirstWithMonth(s, Tail(ms), n)

\* f"{year}-{month}-01" for a match m with the month name in group 1 and the
\* year in group 2; None for no match
MonthYearOf(filename, m) ==
  IF ~m.ok THEN None
  ELSE Group(filename, m, 2) \o <<"-">> \o month_map(Lower(Group(filename, m, 1)))
       \o <<"-", "0", "1">>

\* a when it is a match, b otherwise
FirstOk(a, b) == IF a.ok THEN a ELSE b

\* the loop over text_month_year and short_month: f"{year}-{month}-01" of
\* the first match with a month, None when the loop returns nothing
MonthYearDate(filename) ==
  MonthYearOf(filename,
              FirstOk(FirstWithMonth(filename, FindIter(text_month_year, filename), 1),
                      FirstWithMonth(filename, FindIter(short_month, filename), 1)))

\* year_matches[0] if year_matches, else None
YearHint(year_matches) == IF Len(year_matches) > 0 THEN year_matches[1] ELSE None

\* the passes after the full dates, given what the patterns found:
\* month_year the result of the month+year loop, range_month the first
\* text_month_range match with a month, ranges the year_range matches
PartialFrom(filename, year_hint, month_year, range_month, ranges) ==
  IF month_year # None THEN month_year
  ELSE IF year_hint # None /\ range_month.ok
    THEN year_hint \o <<"-">> \o month_map(Lower(Group(filename, range_month, 2)))
         \o <<"-", "0", "1">>
  ELSE IF Len(ranges) > 0
    THEN Group(filename, ranges[1], 1) \o <<"-", "0", "6", "-", "0", "1">>
  ELSE IF year_hint # None THEN year_hint \o <<"-", "0", "6", "-", "0", "1">>
  ELSE None

\* the passes after the full dates
PartialDate(filename) ==
  PartialFrom(filename,
              YearHint(FindAll1(year, filename)),
              MonthYearDate(filename),
              FirstWithMonth(filename, FindIter(text_month_range, filename), 2),
              FindIter(year_range, filename))

\* if dates: return min(dates); otherwise the later passes decide
EarliestOr(dates, otherwise) == IF Len(dates) > 0 THEN StrMin(dates) ELSE otherwise

parse_date_from_parentheses(filename) ==
  EarliestOr(FullDates(filename), PartialDate(filename))

(***************************************************************************)
(* clean_filename                                                          *)
(***************************************************************************)
\* [A-Za-z]+
Letters == Plus(In(AsciiLetter))

\* \s*-\s*
SpacedDash == Cat(<<Star(In(WhiteSpace)), Dash, Star(In(WhiteSpace))>>)

\* [-_\.]
DateSep == In({"-", "_", "."})

\* the list date_patterns of clean_filename, in its order; every pattern is
\* applied with re.IGNORECASE
clean_date_patterns ==
  << \* [\(\[\{]\d{4}-\d{2}-\d{2}[\)\]\}]
     Cat(<<Open, D4, Dash, D2, Dash, D2, Close>>),
     \* [\(\[\{]\d{8}[^\)\]\}]*[\)\]\}]
     Cat(<<Open, D8, Star(NotIn(CloseBracket)), Close>>),
     \* [\(\[\{]\d{4}[\)\]\}]
     Cat(<<Open, D4, Close>>),
     \* [\(\[\{]\d{4}[-_\.]\d{2}[-_\.]\d{2}[\)\]\}]
     Cat(<<Open, D4, DateSep, D2, DateSep, D2, Close>>),
     \* [\(\[\{]\d{4}-\d{4}[\)\]\}]
     Cat(<<Open, D4, Dash, D4, Close>>),
     \* [\(\[\{]\d{4}-\d{4}_\d+[\)\]\}]
     Cat(<<Open, D4, Dash, D4, In({"_"}), Plus(In(Digit)), Close>>),
     \* [\(\[\{](?:Jan|...|Dec)\s+\d{4}[\)\]\}]
     Cat(<<Open, ShortMonthNames, Plus(In(WhiteSpace)), D4, Close>>),
     \* [\(\[\{](?:January|...|December)\s+\d{4}[\)\]\}]
     Cat(<<Open, MonthNames, Plus(In(WhiteSpace)), D4, Close>>),
     \* [\(\[\{](?:January|...|December)(?:\s*-\s*[A-Za-z]+)?[\)\]\}]
     Cat(<<Open, MonthNames, Opt(Cat(<<SpacedDash, Letters>>)), Close>>),
     \* [\(\[\{]\d{4}[\)\]\}].*?[\(\[\{](?:January|...|December)[^\)\]\}]*[\)\]\}]
     Cat(<<Open, D4, Close, StarLazy(AnyChar), Open, MonthNames,
           Star(NotIn(CloseBracket)), Close>>),
     \* [\[\{\(]\d{4}\s*-\s*\d{4}[\]\}\)]
     Cat(<<Open, D4, SpacedDash, D4, Close>>),
     \* [\(\[\{]\d{4}[-_\.]\d{2}[\)\]\}]
     Cat(<<Open, D4, DateSep, D2, Close>>),
     \* [\(\[\{][A-Za-z]+\s*-\s*[A-Za-z]+[\)\]\}]
     Cat(<<Open, Letters, SpacedDash, Letters, Close>>),
     \* [\(\[\{][A-Za-z]+(?:\s*-\s*[A-Za-z]+)?(?:\s+\d{4})?[\)\]\}]
     Cat(<<Open, Letters, Opt(Cat(<<SpacedDash, Letters>>)),
           Opt(Cat(<<Plus(In(WhiteSpace)), D4>>)), Close>>) >>

\* for pattern in date_patterns: cleaned_name = re.sub(pattern, '', cleaned_name)
RECURSIVE RemoveAll(_, _)

\* the later patterns applied to cleaned_name, the result of one re.sub on name
RemoveMore(patterns, name, cleaned_name) ==
  IF cleaned_name = name
  THEN RemoveAll(patterns, name)   \* the pattern matched nothing
  ELSE RemoveAll(patterns, cleaned_name)

RemoveAll(patterns, name) ==
  IF Len(patterns) = 0 THEN name
  ELSE RemoveMore(Tail(patterns), name, ReSub(Head(patterns), <<>>, name))

\* the clean-up of what the removal leaves
CollapseDebris(name) ==
  LET \* re.sub(r'\s+', ' ', cleaned_name).strip()
      a == Strip(ReSub(Plus(In(WhiteSpace)), <<" ">>, name), WhiteSpace)
      \* re.sub(r'[\(\[\{]\s*[\)\]\}]', '', cleaned_name)
      b == ReSub(Cat(<<Open, Star(In(WhiteSpace)), Close>>), <<>>, a)
      \* re.sub(r'-+', '-', cleaned_name)
      c == ReSub(Plus(Dash), <<"-">>, b)
      \* re.sub(r'\s*-\s*', ' - ', cleaned_name)
      d == ReSub(SpacedDash, <<" ", "-", " ">>, c)
      \* re.sub(r'\(\s+', '(', cleaned_name)
      e == ReSub(Cat(<<In({"("}), Plus(In(WhiteSpace))>>), <<"(">>, d)
      \* re.sub(r'\s+\)', ')', cleaned_name)
      f == ReSub(Cat(<<Plus(In(WhiteSpace)), In({")"})>>), <<")">>, e)
      \* re.sub(r'\s+', ' ', cleaned_name).strip()
      h == Strip(ReSub(Plus(In(WhiteSpace)), <<" ">>, f), WhiteSpace)
  IN \* cleaned_name.strip(' -')
     Strip(h, {" ", "-"})

\* clean_filename(original_filename): the pair (final_name, date_str)
\* the rest of clean_filename once date_str is known
Renamed(original_filename, date_str) ==
  IF date_str = None THEN [name |-> original_filename, date |-> None]
  ELSE [name |-> <<"(">> \o date_str \o <<")", " ">>
                 \o CollapseDebris(RemoveAll(clean_date_patterns, original_filename)),
        date |-> date_str]

clean_filename(original_filename) ==
  Renamed(original_filename, parse_date_from_parentheses(original_filename))

(***************************************************************************)
(* parse_filename_metadata                                                 *)
(***************************************************************************)
\* \((\d{4}(?:-\d{2}){0,2})\)
date_prefix ==
  Cat(<<In({"("}), Grp(1, Cat(<<D4, Rep(Cat(<<Dash, D2>>), 0, 2)>>)), In({")"})>>)

\* \((.+)\): from the first "(" to the last ")"
parenthetical_greedy == Cat(<<In({"("}), Grp(1, Plus(AnyChar)), In({")"})>>)

\* \(([^)]+)\)
parenthetical == Cat(<<In({"("}), Grp(1, Plus(NotIn({")"}))), In({")"})>>)

\* \[([^\]]+)\]
square_bracket == Cat(<<In({"["}), Grp(1, Plus(NotIn({"]"}))), In({"]"})>>)

\* [m.group(1).strip() for m in re.finditer(re, s)]
StrippedGroups1(s, ms) == [j \in 1..Len(ms) |-> Strip(Group(s, ms[j], 1), WhiteSpace)]

StrippedGroups(re, s) == StrippedGroups1(s, FindIter(re, s))

TimeOfDay == <<" ", "1", "2", ":", "0", "0", ":", "0", "0">>

parse_filename_metadata(filename) ==
  LET date_match == ReMatch(date_prefix, filename)
      date_str == Group(filename, date_match, 1)
      working_name ==
        IF date_match.ok
        THEN Strip(SubSeq(filename, date_match.e, Len(filename)), WhiteSpace)
        ELSE filename
      authors == StrippedGroups(parenthetical, working_name)
      t1 == ReSub(parenthetical, <<>>, working_name)
      t2 == ReSub(square_bracket, <<>>, t1)
      t3 == ReSub(Plus(In(WhiteSpace)), <<" ">>, t2)
      t4 == ReSub(SpacedDash, <<" ", "-", " ">>, t3)
      title == Strip(t4, {" ", "-"})
  IN [date |-> IF ~date_match.ok THEN None
               ELSE IF Len(date_str) = 4
                 THEN date_str \o <<"-", "0", "6", "-", "0", "1">> \o TimeOfDay
               ELSE date_str \o TimeOfDay,
      author |-> IF Len(authors) > 0 THEN authors[1] ELSE None,
      tags |-> StrippedGroups(square_bracket, working_name),
      title |-> title,
      duplicate_authors |-> IF Len(authors) > 1 THEN Tail(authors) ELSE <<>>]

(***************************************************************************)
(* Documents.  A file is its metadata info (a function from the keys the   *)
(* document holds to their values), whether it is encrypted, its pages,    *)
(* and whether it was written to the end (whole).                          *)
(***************************************************************************)
\* str(value).replace(',', ';')
sanitize_field(value) ==
  [i \in 1..Len(value) |-> IF value[i] = "," THEN ";" ELSE value[i]]

\* info.get(key, None)
InfoGet(info, key) == IF key \in DOMAIN info THEN info[key] ELSE None

\* metadata[field] = sanitize_field(value) if value else None
ExtractField(info, key) ==
  IF InfoGet(info, key) # None THEN sanitize_field(InfoGet(info, key)) ELSE None

create_error_metadata(error_msg) ==
  [has_title |-> FALSE, title |-> None, has_author |-> FALSE, author |-> None,
   has_subject |-> FALSE, subject |-> None, has_tags |-> FALSE, tags |-> None,
   error |-> error_msg]

\* the snapshot of the fields of a document
extract_pdf_metadata(file) ==
  IF file.is_encrypted THEN create_error_metadata("Encrypted PDF")
  ELSE [has_title |-> ExtractField(file.info, "/Title") # None,
        title |-> ExtractField(file.info, "/Title"),
        has_author |-> ExtractField(file.info, "/Author") # None,
        author |-> ExtractField(file.info, "/Author"),
        has_subject |-> ExtractField(file.info, "/Subject") # None,
        subject |-> ExtractField(file.info, "/Subject"),
        has_tags |-> ExtractField(file.info, "/Keywords") # None,
        tags |-> ExtractField(file.info, "/Keywords"),
        error |-> "None"]

(***************************************************************************)
(* metadata_write: the fields written for one file                         *)
(***************************************************************************)
\* \.pdf$ under re.IGNORECASE
pdf_extension == Cat(<<LitCI(<<".", "p", "d", "f">>), Eos>>)

\* \s+
Spaces == Plus(In(WhiteSpace))

clean_title_string(title) ==
  IF title = None THEN None
  ELSE Strip(ReSub(SpacedDash, <<" ", "-", " ">>,
                   ReSub(Spaces, <<" ">>, ReSub(pdf_extension, <<>>, title))),
             {" ", "-"})

\* \(\d{4}(?:-\d{2}){0,2}\)\s*(.+)
prefixed_text ==
  Cat(<<In({"("}), D4, Rep(Cat(<<Dash, D2>>), 0, 2), In({")"}),
        Star(In(WhiteSpace)), Grp(1, Plus(AnyChar))>>)

\* the text after the date prefix, or else the parsed title
TextOf(filename, title, date_match) ==
  IF date_match.ok THEN Group(filename, date_match, 1) ELSE title

\* title_text: without the extension, spaces collapsed, stripped
TitleText(filename, title) ==
  Strip(ReSub(Spaces, <<" ">>,
              ReSub(pdf_extension, <<>>,
                    TextOf(filename, title, ReMatch(prefixed_text, filename)))),
        WhiteSpace)

\* sep.join(texts)
RECURSIVE JoinWith(_, _)
JoinWith(sep, texts) ==
  IF Len(texts) = 0 THEN <<>>
  ELSE IF Len(texts) = 1 THEN texts[1]
  ELSE texts[1] \o sep \o JoinWith(sep, Tail(texts))

\* no key
Nothing == <<>>

\* f"D:{date.replace('-', '').replace(' ', '').replace(':', '')}"
DateToWrite(filename_metadata) ==
  IF filename_metadata.date # None
  THEN "/CreationDate" :>
         (<<"D", ":">> \o SelectSeq(filename_metadata.date, LAMBDA c : c \notin {"-", " ", ":"}))
  ELSE Nothing

\* the author of the filename is written whatever the document holds
AuthorToWriteAlways(filename_metadata, pdf_metadata) ==
  IF filename_metadata.author # None
  THEN "/Author" :> Strip(filename_metadata.author, WhiteSpace)
  ELSE Nothing

\* if filename_metadata['author'] and not pdf_metadata['has_author']
AuthorToWrite(filename_metadata, pdf_metadata) ==
  IF filename_metadata.author # None /\ ~pdf_metadata.has_author
  THEN "/Author" :> Strip(filename_metadata.author, WhiteSpace)
  ELSE Nothing

\* if filename_metadata['tags']: new_tags = ', '.join(...)
TagsToWrite(filename_metadata) ==
  IF Len(filename_metadata.tags) > 0
  THEN "/Keywords" :> JoinWith(<<",", " ">>, filename_metadata.tags)
  ELSE Nothing

\* if filename_metadata['title'] and clean_title: title and subject, whatever
\* the document holds
TitleToWrite(filename, filename_metadata) ==
  IF filename_metadata.title # None /\ clean_title_string(filename_metadata.title) # None
  THEN ("/Title" :> TitleText(filename, filename_metadata.title))
       @@ ("/Subject" :> TitleText(filename, filename_metadata.title))
  ELSE Nothing

metadata_to_write(filename, filename_metadata, pdf_metadata) ==
  DateToWrite(filename_metadata)
  @@ AuthorToWrite(filename_metadata, pdf_metadata)
  @@ TagsToWrite(filename_metadata)
  @@ TitleToWrite(filename, filename_metadata)

\* metadata_written_flags: one of author, tags, title, subject was set
AnyFlag(to_write) == DOMAIN to_write \ {"/CreationDate"} # {}

\* a writer that keeps the first metadata it was given
add_metadata_first(info, more) == info @@ more

\* writer.add_metadata(more) on a writer holding info: the new values win
add_metadata(info, more) == more @@ info

\* the document the writer produces: the pages of the reader, the existing
\* metadata, then the new metadata over it
Rewritten(file, to_write) ==
  [file EXCEPT !.info = add_metadata(add_metadata(Nothing, file.info), to_write)]

(***************************************************************************)
(* outlier_scan: the trailing separators and the embedded dates            *)
(***************************************************************************)
\* s.replace(old, new): every occurrence of old, left to right
RECURSIVE StrReplace(_, _, _)
StrReplace(s, old, new) ==
  IF Len(old) = 0 \/ Len(s) < Len(old) THEN s
  ELSE IF SubSeq(s, 1, Len(old)) = old
    THEN new \o StrReplace(SubSeq(s, Len(old) + 1, Len(s)), old, new)
  ELSE <<Head(s)>> \o StrReplace(Tail(s), old, new)

\* os.path.splitext(filename): where the extension begins, at the last dot
\* unless only dots come before it (past the end: no extension)
splitext(filename) ==
  LET dots == {i \in 1..Len(filename) :
                 /\ filename[i] = "."
                 /\ \A j \in (i + 1)..Len(filename) : filename[j] # "."
                 /\ \E j \in 1..(i - 1) : filename[j] # "."}
  IN IF dots = {} THEN Len(filename) + 1 ELSE SetMax(dots)

\* \s*-\s*$
trailing_separator ==
  Cat(<<Star(In(WhiteSpace)), Dash, Star(In(WhiteSpace)), Eos>>)

\* the name without its extension, cleaned
CleanedTrail(name) ==
  ReSub(trailing_separator, <<>>,
        RStrip(ReSub(Plus(In(WhiteSpace)), <<" ">>, name), WhiteSpace))

clean_trailing_separators(filename) ==
  CleanedTrail(SubSeq(filename, 1, splitext(filename) - 1))
    \o SubSeq(filename, splitext(filename), Len(filename))

\* \((\d{4})\)\s*(.+)
year_prefix_text ==
  Cat(<<In({"("}), Grp(1, D4), In({")"}), Star(In(WhiteSpace)), Grp(2, Plus(AnyChar))>>)

D12 == Rep(In(Digit), 1, 2)

\* \s*-\s*
LooseDash == Cat(<<Star(In(WhiteSpace)), Dash, Star(In(WhiteSpace))>>)

\* (\d{4})\s*-\s*(\d{1,2})\s*-\s*(\d{1,2})\s*-\s*
spaced_date_dash ==
  Cat(<<Grp(1, D4), LooseDash, Grp(2, D12), LooseDash, Grp(3, D12), LooseDash>>)

\* \s*\(\d{4}-\d{2}\d{2}_\d+\)
expense_stamp ==
  Cat(<<Star(In(WhiteSpace)), In({"("}), D4, Dash, D2, D2, In({"_"}),
        Plus(In(Digit)), In({")"})>>)

\* (?:^|\s+)(\d{4})\s*-\s*(\d{1,2})\s*-\s*(\d{1,2})(?:\s+|$)
spaced_date ==
  Cat(<<Alt(<<Bos, Plus(In(WhiteSpace))>>),
        Grp(1, D4), LooseDash, Grp(2, D12), LooseDash, Grp(3, D12),
        Alt(<<Plus(In(WhiteSpace)), Eos>>)>>)

\* s.zfill(2)
zfill2(s) == IF Len(s) < 2 THEN <<"0">> \o s ELSE s

\* s[from:to] of Python, from and to counted from 0
Slice(s, from, to) ==
  SubSeq(s, from + 1, IF to < Len(s) THEN to ELSE Len(s))

\* the formatters of date_patterns: the pair (formatted_date, text_to_remove)
FormatSpaced(s, m) ==
  [date |-> Group(s, m, 1) \o <<"-">> \o zfill2(Group(s, m, 2)) \o <<"-">>
            \o zfill2(Group(s, m, 3)),
   remove |-> <<Group0(s, m)>>]

FormatStamp(text, year_prefix) ==
  [date |-> Slice(text, 2, 6) \o <<"-">> \o Slice(text, 7, 9) \o <<"-">>
            \o Slice(text, 9, 11),
   remove |-> IF year_prefix # None THEN <<text, year_prefix>> ELSE <<text>>]

FormatSpacedAll(s, ms) == [j \in 1..Len(ms) |-> FormatSpaced(s, ms[j])]

FormatStampAll(s, ms, year_prefix) ==
  [j \in 1..Len(ms) |-> FormatStamp(Group0(s, ms[j]), year_prefix)]

NoEmbedded == [date |-> None, remove |-> <<>>]

\* the first result that is a date of the calendar and is not existing_date
RECURSIVE FirstEmbedded(_, _)
FirstEmbedded(found, existing_date) ==
  IF Len(found) = 0 THEN NoEmbedded
  ELSE IF Strptime(Head(found).date)
          /\ (existing_date = None \/ Head(found).date # existing_date)
    THEN Head(found)
  ELSE FirstEmbedded(Tail(found), existing_date)

\* the loop over date_patterns on working_name
EmbeddedIn(working_name, year_prefix, existing_date) ==
  FirstEmbedded(
    FormatSpacedAll(working_name, FindIter(spaced_date_dash, working_name))
    \o FormatStampAll(working_name, FindIter(expense_stamp, working_name), year_prefix)
    \o FormatSpacedAll(working_name, FindIter(spaced_date, working_name)),
    existing_date)

\* working_name: the filename without its leading date
WorkingName(filename, existing_date, match) ==
  IF existing_date # None
  THEN Strip(StrReplace(filename, <<"(">> \o existing_date \o <<")">>, <<>>), WhiteSpace)
  ELSE IF match.ok THEN Group(filename, match, 1) ELSE filename

\* year_prefix: "(" year ")" when the filename begins with a year in brackets
YearPrefix(filename, year_prefix_match) ==
  IF year_prefix_match.ok
  THEN <<"(">> \o Group(filename, year_prefix_match, 1) \o <<")">>
  ELSE None

find_embedded_dates(filename, existing_date) ==
  EmbeddedIn(WorkingName(filename, existing_date, ReMatch(prefixed_text, filename)),
             YearPrefix(filename, ReMatch(year_prefix_text, filename)),
             existing_date)

\* the leading bracket is not looked at
ExistingDateNever(filename, match) == None

\* existing_date of outlier_scan: the date of the leading bracket, or None
ExistingDate(filename, match) ==
  IF match.ok THEN Group(filename, match, 1) ELSE None

RECURSIVE RemoveTexts(_, _)
RemoveTexts(working_name, text_to_remove) ==
  IF Len(text_to_remove) = 0 THEN working_name
  ELSE RemoveTexts(StrReplace(working_name, Head(text_to_remove), <<>>),
                   Tail(text_to_remove))

\* proposed_filename of outlier_scan for the embedded date found, or None when
\* no change is proposed
ProposedFor(filename, existing_date, embedded) ==
  IF embedded.date # None /\ Len(embedded.remove) > 0
     /\ (existing_date = None \/ Len(embedded.date) > Len(existing_date))
  THEN <<"(">> \o embedded.date \o <<")", " ">>
       \o clean_trailing_separators(RemoveTexts(filename, embedded.remove))
  ELSE None

ProposedAfter(filename, existing_date) ==
  ProposedFor(filename, existing_date, find_embedded_dates(filename, existing_date))

Proposed(filename) ==
  ProposedAfter(filename, ExistingDate(filename, ReMatch(date_prefix, filename)))

(***************************************************************************)
(* The filenames of the model: up to MaxSegs segments of the table Tokens, *)
(* joined by single spaces, with the extension ".pdf".  Beside its text s  *)
(* a segment records what it is, independently of the code: its kind k,    *)
(* and where they apply the calendar date d it denotes (empty: none, the   *)
(* digits are no date of the calendar), its year y and its month m.        *)
(*   iso        bracketed YYYY-MM-DD                                       *)
(*   compact    bracketed YYYYMMDD                                         *)
(*   compactjunk   bracketed YYYYMMDD followed by other characters         *)
(*   compactstamp  the same, the other characters holding YYYY-MMDD_digits *)
(*   stamp      bracketed YYYY-MMDD_HHMMSS                                 *)
(*   digits     a run of eight digits in free text, outside any bracket    *)
(*   year, month, monthyear, range, yearmonth   the partial date brackets  *)
(*   gluedstamp, spacedstamp   a stamp bracket right after a word, and     *)
(*              one after a space more than the joining one                *)
(*   spaced     YYYY - M - D in free text                                  *)
(*   word, author, tag, dash, other             text that is no date       *)
(***************************************************************************)
MaxSegs == 3

\* the tags of a canonical name are at most
MaxTags == 2

Tokens ==
  << \* 1: (2020-05-01)
     [s |-> <<"(", "2", "0", "2", "0", "-", "0", "5", "-", "0", "1", ")">>,
      k |-> "iso", d |-> <<"2", "0", "2", "0", "-", "0", "5", "-", "0", "1">>, y |-> <<>>, m |-> <<>>],
     \* 2: [2019-01-02]
     [s |-> <<"[", "2", "0", "1", "9", "-", "0", "1", "-", "0", "2", "]">>,
      k |-> "iso", d |-> <<"2", "0", "1", "9", "-", "0", "1", "-", "0", "2">>, y |-> <<>>, m |-> <<>>],
     \* 3: (2023-02-30)
     [s |-> <<"(", "2", "0", "2", "3", "-", "0", "2", "-", "3", "0", ")">>,
      k |-> "iso", d |-> <<>>, y |-> <<>>, m |-> <<>>],
     \* 4: (20210805)
     [s |-> <<"(", "2", "0", "2", "1", "0", "8", "0", "5", ")">>,
      k |-> "compact", d |-> <<"2", "0", "2", "1", "-", "0", "8", "-", "0", "5">>, y |-> <<>>, m |-> <<>>],
     \* 5: (2011-0704_093000)
     [s |-> <<"(", "2", "0", "1", "1", "-", "0", "7", "0", "4", "_", "0", "9", "3", "0", "0", "0", ")">>,
      k |-> "stamp", d |-> <<"2", "0", "1", "1", "-", "0", "7", "-", "0", "4">>, y |-> <<>>, m |-> <<>>],
     \* 6: 12345678
     [s |-> <<"1", "2", "3", "4", "5", "6", "7", "8">>,
      k |-> "digits", d |-> <<>>, y |-> <<>>, m |-> <<>>],
     \* 7: 20111231
     [s |-> <<"2", "0", "1", "1", "1", "2", "3", "1">>,
      k |-> "digits", d |-> <<"2", "0", "1", "1", "-", "1", "2", "-", "3", "1">>, y |-> <<>>, m |-> <<>>],
     \* 8: (2020)
     [s |-> <<"(", "2", "0", "2", "0", ")">>,
      k |-> "year", d |-> <<>>, y |-> <<"2", "0", "2", "0">>, m |-> <<>>],
     \* 9: (0000)
     [s |-> <<"(", "0", "0", "0", "0", ")">>,
      k |-> "year", d |-> <<>>, y |-> <<"0", "0", "0", "0">>, m |-> <<>>],
     \* 10: (March)
     [s |-> <<"(", "M", "a", "r", "c", "h", ")">>,
      k |-> "month", d |-> <<>>, y |-> <<>>, m |-> <<"0", "3">>],
     \* 11: (Mar 2021)
     [s |-> <<"(", "M", "a", "r", " ", "2", "0", "2", "1", ")">>,
      k |-> "monthyear", d |-> <<>>, y |-> <<"2", "0", "2", "1">>, m |-> <<"0", "3">>],
     \* 12: (2019-2021)
     [s |-> <<"(", "2", "0", "1", "9", "-", "2", "0", "2", "1", ")">>,
      k |-> "range", d |-> <<>>, y |-> <<"2", "0", "1", "9">>, m |-> <<>>],
     \* 13: (2020-03)
     [s |-> <<"(", "2", "0", "2", "0", "-", "0", "3", ")">>,
      k |-> "yearmonth", d |-> <<>>, y |-> <<"2", "0", "2", "0">>, m |-> <<"0", "3">>],
     \* 14: Report
     [s |-> <<"R", "e", "p", "o", "r", "t">>,
      k |-> "word", d |-> <<>>, y |-> <<>>, m |-> <<>>],
     \* 15: ( 2019)
     [s |-> <<"(", " ", "2", "0", "1", "9", ")">>,
      k |-> "other", d |-> <<>>, y |-> <<>>, m |-> <<>>],
     \* 16: (Jane)
     [s |-> <<"(", "J", "a", "n", "e", ")">>,
      k |-> "author", d |-> <<>>, y |-> <<>>, m |-> <<>>],
     \* 17: [tax]
     [s |-> <<"[", "t", "a", "x", "]">>,
      k |-> "tag", d |-> <<>>, y |-> <<>>, m |-> <<>>],
     \* 18: -
     [s |-> <<"-">>,
      k |-> "dash", d |-> <<>>, y |-> <<>>, m |-> <<>>],
     \* 19: (20100805_162655)
     [s |-> <<"(", "2", "0", "1", "0", "0", "8", "0", "5", "_", "1", "6", "2", "6", "5", "5", ")">>,
      k |-> "compactjunk", d |-> <<"2", "0", "1", "0", "-", "0", "8", "-", "0", "5">>, y |-> <<>>, m |-> <<>>],
     \* 20: {20091231 scan}
     [s |-> <<"{", "2", "0", "0", "9", "1", "2", "3", "1", " ", "s", "c", "a", "n", "}">>,
      k |-> "compactjunk", d |-> <<"2", "0", "0", "9", "-", "1", "2", "-", "3", "1">>, y |-> <<>>, m |-> <<>>],
     \* 21: (20100805_1999-0101_1)
     [s |-> <<"(", "2", "0", "1", "0", "0", "8", "0", "5", "_", "1", "9", "9", "9", "-", "0", "1", "0", "1", "_", "1", ")">>,
      k |-> "compactstamp", d |-> <<"2", "0", "1", "0", "-", "0", "8", "-", "0", "5">>, y |-> <<>>, m |-> <<>>],
     \* 22: [finance]
     [s |-> <<"[", "f", "i", "n", "a", "n", "c", "e", "]">>,
      k |-> "tag", d |-> <<>>, y |-> <<>>, m |-> <<>>],
     \* 23: (Jane Doe)
     [s |-> <<"(", "J", "a", "n", "e", " ", "D", "o", "e", ")">>,
      k |-> "author", d |-> <<>>, y |-> <<>>, m |-> <<>>],
     \* 24: (2020-06-01)
     [s |-> <<"(", "2", "0", "2", "0", "-", "0", "6", "-", "0", "1", ")">>,
      k |-> "iso", d |-> <<"2", "0", "2", "0", "-", "0", "6", "-", "0", "1">>, y |-> <<>>, m |-> <<>>],
     \* 25: (2011-07-04)
     [s |-> <<"(", "2", "0", "1", "1", "-", "0", "7", "-", "0", "4", ")">>,
      k |-> "iso", d |-> <<"2", "0", "1", "1", "-", "0", "7", "-", "0", "4">>, y |-> <<>>, m |-> <<>>],
     \* 26: Scan(2011-0704_093000)
     [s |-> <<"S", "c", "a", "n", "(", "2", "0", "1", "1", "-", "0", "7", "0", "4", "_", "0", "9", "3", "0", "0", "0", ")">>,
      k |-> "gluedstamp", d |-> <<"2", "0", "1", "1", "-", "0", "7", "-", "0", "4">>, y |-> <<>>, m |-> <<>>],
     \* 27:  (2011-0704_093000), after a space of its own
     [s |-> <<" ", "(", "2", "0", "1", "1", "-", "0", "7", "0", "4", "_", "0", "9", "3", "0", "0", "0", ")">>,
      k |-> "spacedstamp", d |-> <<"2", "0", "1", "1", "-", "0", "7", "-", "0", "4">>, y |-> <<>>, m |-> <<>>],
     \* 28: 2011 - 7 - 4
     [s |-> <<"2", "0", "1", "1", " ", "-", " ", "7", " ", "-", " ", "4">>,
      k |-> "spaced", d |-> <<"2", "0", "1", "1", "-", "0", "7", "-", "0", "4">>, y |-> <<>>, m |-> <<>>],
     \* 29: (2011-1304_1)
     [s |-> <<"(", "2", "0", "1", "1", "-", "1", "3", "0", "4", "_", "1", ")">>,
      k |-> "stamp", d |-> <<>>, y |-> <<>>, m |-> <<>>] >>

\* the segments the date inference, the normaliser and the metadata parser
\* are run on
InferTokens == 1..14

CleanTokens == {1, 4, 8, 14, 15, 16, 17, 18}

MetaTokens == {1, 3, 8, 13, 14, 16, 17, 18}

\* the segments of the names outlier_scan is run on
OutlierTokens == {1, 5, 8, 13, 14, 18, 25, 26, 27, 28, 29}

\* the segments of the names with a compact date and more in one bracket
CompactTokens == {8, 10, 14, 18, 19, 20, 21}

RECURSIVE Join(_)
Join(texts) ==
  IF Len(texts) = 0 THEN <<>>
  ELSE IF Len(texts) = 1 THEN texts[1]
  ELSE texts[1] \o <<" ">> \o Join(Tail(texts))

Ext == <<".", "p", "d", "f">>

\* the filename made of the segments numbered by segs
NameOf(segs) == Join([j \in 1..Len(segs) |-> Tokens[segs[j]].s]) \o Ext

NoResult == [name |-> None, date |-> None]

NoMeta == [date |-> None, author |-> None, tags |-> <<>>, title |-> None,
           duplicate_authors |-> <<>>]

(***************************************************************************)
(* State: the filename under inspection (segs: the segments it was made    *)
(* of), which function was applied to it last (pc), and the results.       *)
(***************************************************************************)
VARIABLES segs, filename, pc, date, cleaned, recleaned, meta, outlier

(***************************************************************************)
(* State of the batch operations: the files of the folder by name, the run *)
(* under way (batch: the operation, the listing it walks, how many entries *)
(* of it are done, the number of runs so far, the number of failures of    *)
(* the environment so far, the proposal outlier_scan waits for an answer   *)
(* to: prompt, empty when it waits for none), the lists a run reports at   *)
(* its end (report),                                                       *)
(* and for the properties the folder as the run found it, and the          *)
(* filename_metadata and the metadata_to_write of each entry done, and the *)
(* answer that input() returned in the step just taken (past).             *)
(* PDF_FOLDER is what the path of the root folder names: a directory, or   *)
(* nothing (missing).                                                      *)
(***************************************************************************)
VARIABLES folder, batch, report, past, PDF_FOLDER

names == <<segs, filename, pc, date, cleaned, recleaned, meta, outlier>>

disk == <<folder, batch, report, past, PDF_FOLDER>>

vars == <<segs, filename, pc, date, cleaned, recleaned, meta, outlier,
          folder, batch, report, past, PDF_FOLDER>>

NoBatch ==
  [op |-> "idle", files |-> <<>>, done |-> 0, runs |-> 0, failures |-> 0,
   prompt |-> <<>>]

NoReport ==
  [metadata_written |-> <<>>, untagged_files |-> <<>>, errors |-> <<>>,
   skipped_files |-> <<>>, results |-> <<>>, separator_cleanups |-> <<>>,
   date_cleanups |-> <<>>, duplicate_authors |-> <<>>]

NoPast ==
  [before |-> <<>>, filename_metadata |-> <<>>, to_write |-> <<>>,
   choice |-> <<>>]

\* no folder is worked on
NoDisk ==
  /\ folder = <<>>
  /\ batch = NoBatch
  /\ report = NoReport
  /\ past = NoPast
  /\ PDF_FOLDER = "directory"

\* the results of the two steps of outlier_scan on a filename: the name
\* cleaned of its trailing separators and that name cleaned again, the name
\* step 2 looked at (scanned), and existing_date, the result of
\* find_embedded_dates and proposed_filename for it
NoOutlier ==
  [trimmed |-> None, retrimmed |-> None, scanned |-> None,
   existing_date |-> None, embedded |-> NoEmbedded, proposed |-> None]

\* nothing was applied to the filename yet
Fresh ==
  /\ filename = NameOf(segs)
  /\ pc = "start"
  /\ date = None
  /\ cleaned = NoResult
  /\ recleaned = NoResult
  /\ meta = NoMeta
  /\ outlier = NoOutlier
  /\ NoDisk

InitWith(tokens) ==
  /\ \E n \in 1..MaxSegs : segs \in [1..n -> tokens]
  /\ Fresh

Init == InitWith(InferTokens)

InitClean == InitWith(CleanTokens)

\* the names of the canonical grammar with an author:
\* "(" ISO-date ")" SP Title " - (" Author ")" [" [" Tag "]"]*
CanonicalSegs ==
  {<<1, 14, 18, a>> \o tags :
     a \in {16, 23}, tags \in UNION {[1..n -> {17, 22}] : n \in 0..MaxTags}}

InitMeta ==
  \/ InitWith(MetaTokens)
  \/ segs \in CanonicalSegs /\ Fresh

InitCompact == InitWith(CompactTokens)

InitOutlier == InitWith(OutlierTokens)

\* date_str = parse_date_from_parentheses(filename)
Infer ==
  /\ pc = "start"
  /\ pc' = "inferred"
  /\ date' = parse_date_from_parentheses(filename)
  /\ UNCHANGED <<segs, filename, cleaned, recleaned, meta, outlier>>
  /\ UNCHANGED disk

\* filename_metadata = parse_filename_metadata(filename)
ParseMeta ==
  /\ pc = "start"
  /\ pc' = "parsed"
  /\ meta' = parse_filename_metadata(filename)
  /\ UNCHANGED <<segs, filename, date, cleaned, recleaned, outlier>>
  /\ UNCHANGED disk

\* cleaned_filename, new_date_str = clean_filename(filename)
Normalize ==
  /\ pc = "start"
  /\ pc' = "cleaned"
  /\ cleaned' = clean_filename(filename)
  /\ UNCHANGED <<segs, filename, date, recleaned, meta, outlier>>
  /\ UNCHANGED disk

\* a later run meets the renamed file: clean_filename of the cleaned name
Renormalize ==
  /\ pc = "cleaned"
  /\ pc' = "recleaned"
  /\ recleaned' = clean_filename(cleaned.name)
  /\ UNCHANGED <<segs, filename, date, cleaned, meta, outlier>>
  /\ UNCHANGED disk

Next == Infer

NextClean == Normalize \/ Renormalize

NextMeta == ParseMeta

\* cleaned_filename = clean_trailing_separators(filename)
TrimSeparators ==
  /\ pc = "start"
  /\ pc' = "trimmed"
  /\ outlier' = [outlier EXCEPT !.trimmed = clean_trailing_separators(filename)]
  /\ UNCHANGED <<segs, filename, date, cleaned, recleaned, meta>>
  /\ UNCHANGED disk

\* a later run meets the renamed file: clean_trailing_separators of the
\* cleaned name
RetrimSeparators ==
  /\ pc = "trimmed"
  /\ pc' = "retrimmed"
  /\ outlier' = [outlier EXCEPT !.retrimmed = clean_trailing_separators(outlier.trimmed)]
  /\ UNCHANGED <<segs, filename, date, cleaned, recleaned, meta>>
  /\ UNCHANGED disk

ProposalFor(scanned, existing_date, embedded) ==
  [outlier EXCEPT !.scanned = scanned,
                  !.existing_date = existing_date,
                  !.embedded = embedded,
                  !.proposed = ProposedFor(scanned, existing_date, embedded)]

ProposalAfter(scanned, existing_date) ==
  ProposalFor(scanned, existing_date, find_embedded_dates(scanned, existing_date))

\* step 2 of outlier_scan on scanned
ProposalOn(scanned) ==
  ProposalAfter(scanned, ExistingDate(scanned, ReMatch(date_prefix, scanned)))

\* step 2 of outlier_scan, on the filename as it is (step 1 renamed nothing)
\* or on the name step 1 gave the file
Propose ==
  /\ pc \in {"start", "trimmed"}
  /\ pc' = "proposed"
  /\ outlier' = ProposalOn(IF pc = "start" THEN filename ELSE outlier.trimmed)
  /\ UNCHANGED <<segs, filename, date, cleaned, recleaned, meta>>
  /\ UNCHANGED disk

NextOutlier == TrimSeparators \/ RetrimSeparators \/ Propose

\* the date inference on every filename of InferTokens
Spec == Init /\ [][Next]_vars

\* the date inference on the filenames of CompactTokens
SpecCompact == InitCompact /\ [][Next]_vars

\* the normaliser, and the normaliser on its own output
SpecClean == InitClean /\ [][NextClean]_vars

\* the metadata parser
SpecMeta == InitMeta /\ [][NextMeta]_vars

\* the two steps of outlier_scan on a filename
SpecOutlier == InitOutlier /\ [][NextOutlier]_vars

(***************************************************************************)
(* The folders of metadata_write: a document under one of the names of     *)
(* WriteSegs, readable with one of the metadata infos of Infos or          *)
(* encrypted, beside a second document that is empty of metadata or        *)
(* encrypted.                                                              *)
(***************************************************************************)
MaxWriteSegs == 1

\* the runs of an operation over the same folder are at most
MaxRuns == 2

\* the rewrites and renames the environment lets fail are at most
MaxFailures == 1

WriteTokens == {1, 14, 16, 17, 23}

\* a date prefix, a title and two parentheticals
TwoAuthorSegs ==
  {<<1, 14, 18, a, b>> \o tags :
     a \in {16, 23}, b \in {16, 23}, tags \in {<<>>, <<17>>}}

WriteSegs ==
  UNION {[1..n -> WriteTokens] : n \in 1..MaxWriteSegs}
  \cup CanonicalSegs \cup TwoAuthorSegs

\* the name of the second document: "(2020) Report.pdf"
OtherSegs == <<8, 14>>

InfoKeys == {"/Title", "/Author", "/Subject", "/Keywords"}

\* the value of a field that was filled before
Filled == <<"X">>

\* every choice of filled fields, and an author field that is present but empty
Infos ==
  UNION {[keys -> {Filled}] : keys \in SUBSET InfoKeys} \cup {"/Author" :> <<>>}

Document(info, pages) ==
  [info |-> info, is_encrypted |-> FALSE, pages |-> pages, whole |-> TRUE]

Encrypted(pages) ==
  [info |-> "/Author" :> Filled, is_encrypted |-> TRUE, pages |-> pages, whole |-> TRUE]

\* no function of the names is under way
NoNames ==
  /\ segs = <<>>
  /\ filename = <<>>
  /\ pc = "batch"
  /\ date = None
  /\ cleaned = NoResult
  /\ recleaned = NoResult
  /\ meta = NoMeta
  /\ outlier = NoOutlier

InitWrite ==
  /\ NoNames
  /\ \E sg \in WriteSegs :
       \E first \in {Document(info, 1) : info \in Infos} \cup {Encrypted(1)} :
         \E second \in {Document(Nothing, 2), Encrypted(2)} :
           folder = (NameOf(sg) :> first) @@ (NameOf(OtherSegs) :> second)
  /\ batch = NoBatch
  /\ report = NoReport
  /\ past = NoPast
  /\ PDF_FOLDER = "directory"

\* filename.lower().endswith('.pdf')
IsPdf(name) ==
  Len(name) >= Len(Ext) /\ Lower(SubSeq(name, Len(name) - Len(Ext) + 1, Len(name))) = Ext

\* the orders in which os.walk may list the names S
Listings(S) ==
  {order \in [1..Cardinality(S) -> S] :
     \A i, j \in 1..Cardinality(S) : order[i] = order[j] => i = j}

\* no run is under way, and another one may start
Startable == batch.done = Len(batch.files) /\ batch.runs < MaxRuns

\* the names os.walk(root_folder) yields: those of the folder, and none when
\* the root is no directory (the error of the listing is ignored)
walk(root_folder) == IF root_folder = "directory" THEN DOMAIN folder ELSE {}

\* the operation op starts: os.walk lists the files of the folder
Started(op) ==
  /\ Startable
  /\ \E order \in Listings({name \in walk(PDF_FOLDER) : IsPdf(name)}) :
       batch' = [batch EXCEPT !.op = op, !.files = order, !.done = 0, !.runs = @ + 1]
  /\ report' = NoReport
  /\ past' = [before |-> folder, filename_metadata |-> <<>>, to_write |-> <<>>,
              choice |-> <<>>]
  /\ UNCHANGED folder
  /\ UNCHANGED <<names, PDF_FOLDER>>

\* the run of op has a next entry
Busy(op) == batch.op = op /\ batch.done < Len(batch.files)

\* the name of the entry the run is at
Current == batch.files[batch.done + 1]

\* the folder without the name
Removed(files, name) == [n \in DOMAIN files \ {name} |-> files[n]]

\* the rewrite goes to the file itself
TempOfItself(filepath) == filepath

\* filepath + '.tmp'
TempOf(filepath) == filepath \o <<".", "t", "m", "p">>

\* metadata_write()
StartWrite == Started("metadata_write")

\* the file is not encrypted by the reader's word
IsEncryptedNever(file) == FALSE

\* reader.is_encrypted
IsEncrypted(file) == file.is_encrypted

\* if reader.is_encrypted: the file is recorded as skipped, and the loop goes on
SkipEncrypted ==
  /\ Busy("metadata_write")
  /\ IsEncrypted(folder[Current])
  /\ report' = [report EXCEPT !.skipped_files = Append(@, [filename |-> Current])]
  /\ past' = [past EXCEPT !.filename_metadata = Append(@, NoMeta),
                          !.to_write = Append(@, Nothing)]
  /\ batch' = [batch EXCEPT !.done = @ + 1]
  /\ UNCHANGED folder
  /\ UNCHANGED <<names, PDF_FOLDER>>

\* the row of metadata_written, or the row of untagged_files
Recorded(name, to_write) ==
  IF AnyFlag(to_write)
  THEN [report EXCEPT !.metadata_written =
          Append(@, [filename |-> name,
                     author |-> InfoGet(to_write, "/Author"),
                     title |-> InfoGet(to_write, "/Title"),
                     subject |-> InfoGet(to_write, "/Subject"),
                     tags |-> InfoGet(to_write, "/Keywords")])]
  ELSE [report EXCEPT !.untagged_files = Append(@, [filename |-> name])]

\* the temporary file is written to the end and replaces the original
Replaced(name, file, filename_metadata, to_write) ==
  /\ folder' = (name :> Rewritten(file, to_write)) @@ Removed(folder, TempOf(name))
  /\ report' = Recorded(name, to_write)
  /\ past' = [past EXCEPT !.filename_metadata = Append(@, filename_metadata),
                          !.to_write = Append(@, to_write)]
  /\ batch' = [batch EXCEPT !.done = @ + 1]
  /\ UNCHANGED <<names, PDF_FOLDER>>

\* the file is rewritten with the fields chosen for it
ReplacedWith(name, file, filename_metadata) ==
  Replaced(name, file, filename_metadata,
           metadata_to_write(name, filename_metadata, extract_pdf_metadata(file)))

\* one file of metadata_write, the rewrite going through
WriteMetadata ==
  /\ Busy("metadata_write")
  /\ ~IsEncrypted(folder[Current])
  /\ ReplacedWith(Current, folder[Current], parse_filename_metadata(Current))

\* the rewrite raises at step: while the writer is filled ("copy", no
\* temporary file yet), while the temporary file is written ("write", it is
\* left unfinished) or in os.replace ("replace", it is left finished)
Raised(name, file, filename_metadata, to_write, step) ==
  /\ folder' =
       IF step = "copy" THEN folder
       ELSE (TempOf(name) :> [Rewritten(file, to_write) EXCEPT !.whole = (step = "replace")])
            @@ folder
  /\ report' = [report EXCEPT !.errors =
                  Append(@, [filename |-> name, intended_filename |-> None,
                             error |-> "Failed to write metadata"])]
  /\ past' = [past EXCEPT !.filename_metadata = Append(@, filename_metadata),
                          !.to_write = Append(@, to_write)]
  /\ batch' = [batch EXCEPT !.done = @ + 1, !.failures = @ + 1]
  /\ UNCHANGED <<names, PDF_FOLDER>>

RaisedSomewhere(name, file, filename_metadata, to_write) ==
  \E step \in {"copy", "write", "replace"} :
    Raised(name, file, filename_metadata, to_write, step)

RaisedWith(name, file, filename_metadata) ==
  RaisedSomewhere(name, file, filename_metadata,
                  metadata_to_write(name, filename_metadata, extract_pdf_metadata(file)))

\* one file of metadata_write, the rewrite failing
FailWrite ==
  /\ Busy("metadata_write")
  /\ ~IsEncrypted(folder[Current])
  /\ batch.failures < MaxFailures
  /\ RaisedWith(Current, folder[Current], parse_filename_metadata(Current))

NextWrite == StartWrite \/ SkipEncrypted \/ WriteMetadata \/ FailWrite

\* metadata_write, run after run over a folder of two documents
SpecWrite == InitWrite /\ [][NextWrite]_vars

(***************************************************************************)
(* The folders of clean_dates and outlier_scan: two or three documents     *)
(* under names of RenameSegs, each with pages of its own.                  *)
(***************************************************************************)
MaxFiles == 3

\* "(2020) Report.pdf", "(2020-06-01) Report.pdf", "Report (2020).pdf",
\* "Report (2020-06-01).pdf", "Report.pdf", "Report -.pdf",
\* "Report (2011-0704_093000).pdf", "(2011-07-04) Report.pdf",
\* "Report (2011-0704_093000) -.pdf"
RenameSegs ==
  <<<<8, 14>>, <<24, 14>>, <<14, 8>>, <<14, 24>>, <<14>>, <<14, 18>>,
    <<14, 5>>, <<25, 14>>, <<14, 5, 18>>>>

\* the documents under the names numbered by picked, the pages of each its number
FolderOf(picked) ==
  [name \in {NameOf(RenameSegs[j]) : j \in picked} |->
     Document(Nothing, CHOOSE j \in picked : NameOf(RenameSegs[j]) = name)]

InitRename ==
  /\ NoNames
  /\ \E picked \in SUBSET (1..Len(RenameSegs)) :
       /\ Cardinality(picked) \in 2..MaxFiles
       /\ folder = FolderOf(picked)
  /\ batch = NoBatch
  /\ report = NoReport
  /\ past = NoPast
  /\ PDF_FOLDER = "directory"

\* the destination is taken by no file
CollidesNever(files, old, new) == FALSE

\* os.path.exists(new_filepath) and old_filepath.lower() != new_filepath.lower()
Collides(files, old, new) == new \in DOMAIN files /\ Lower(old) # Lower(new)

\* the file is under no name any more
MovedNowhere(files, old, new) == Removed(files, old)

\* os.rename(old, new): the file is under the new name, in the place of any
\* file that was there
Moved(files, old, new) == (new :> files[old]) @@ Removed(files, old)

\* a row of errors
ErrorRow(name, intended_filename, error) ==
  [filename |-> name, intended_filename |-> intended_filename, error |-> error]

\* the run is past the entry it was at
Stepped(failures) ==
  batch' = [batch EXCEPT !.done = @ + 1, !.failures = failures, !.prompt = <<>>]

\* clean_dates()
StartCleanDates == Started("clean_dates")

\* the rest of the loop body of clean_dates once clean_filename has returned
CleanedDates(name, cleaned_filename, new_date_str) ==
  \/ /\ cleaned_filename = name
     /\ Stepped(batch.failures)
     /\ UNCHANGED <<folder, report>>
  \/ /\ cleaned_filename # name
     /\ Collides(folder, name, cleaned_filename)
     /\ report' = [report EXCEPT !.errors =
                     Append(@, ErrorRow(name, cleaned_filename, "Cannot rename"))]
     /\ Stepped(batch.failures)
     /\ UNCHANGED folder
  \/ /\ cleaned_filename # name
     /\ ~Collides(folder, name, cleaned_filename)
     /\ folder' = Moved(folder, name, cleaned_filename)
     /\ report' = [report EXCEPT !.results =
                     Append(@, [original_filename |-> name,
                                new_filename |-> cleaned_filename,
                                date_extracted |-> new_date_str])]
     /\ Stepped(batch.failures)
  \/ /\ cleaned_filename # name
     /\ ~Collides(folder, name, cleaned_filename)
     /\ batch.failures < MaxFailures
     /\ report' = [report EXCEPT !.errors =
                     Append(@, ErrorRow(name, cleaned_filename, "Failed to rename file"))]
     /\ Stepped(batch.failures + 1)
     /\ UNCHANGED folder

CleanedAs(name, result) == CleanedDates(name, result.name, result.date)

\* one file of clean_dates
CleanDates ==
  /\ Busy("clean_dates")
  /\ CleanedAs(Current, clean_filename(Current))
  /\ UNCHANGED past
  /\ UNCHANGED <<names, PDF_FOLDER>>

\* outlier_scan()
StartOutlier == Started("outlier_scan")

\* the answers to "Accept this change? (y/n): "
Choices == {<<"y">>, <<"Y", " ">>, <<"n">>, <<"y", "e", "s">>, <<>>}

\* every answer but "n" is taken for a yes
AcceptedUnlessNo(choice) == Lower(Strip(choice, WhiteSpace)) # <<"n">>

\* choice.strip().lower() == 'y'
Accepted(choice) == Lower(Strip(choice, WhiteSpace)) = <<"y">>

\* step 2 of the loop body up to the prompt: without a proposal the run is
\* past the entry, with one it waits for the answer
Prompted(file_name, existing_date, embedded, proposed_filename, failures) ==
  IF proposed_filename = None THEN Stepped(failures)
  ELSE batch' = [batch EXCEPT !.failures = failures,
                              !.prompt = <<[filename |-> file_name,
                                            original_date |-> existing_date,
                                            new_date |-> embedded.date,
                                            proposed_filename |-> proposed_filename]>>]

Embedded(file_name, existing_date, embedded, failures) ==
  Prompted(file_name, existing_date, embedded,
           ProposedFor(file_name, existing_date, embedded), failures)

Dated(file_name, existing_date, failures) ==
  Embedded(file_name, existing_date, find_embedded_dates(file_name, existing_date),
           failures)

LookedAt(file_name, failures) ==
  Dated(file_name, ExistingDate(file_name, ReMatch(date_prefix, file_name)), failures)

\* the loop body of outlier_scan up to the prompt, once
\* clean_trailing_separators has returned
Separated(name, cleaned_filename) ==
  \/ /\ cleaned_filename = name
     /\ LookedAt(name, batch.failures)
     /\ UNCHANGED <<folder, report>>
  \/ /\ cleaned_filename # name
     /\ Collides(folder, name, cleaned_filename)
     /\ report' = [report EXCEPT !.errors =
                     Append(@, ErrorRow(name, cleaned_filename, "Cannot rename"))]
     /\ Stepped(batch.failures)
     /\ UNCHANGED folder
  \/ /\ cleaned_filename # name
     /\ ~Collides(folder, name, cleaned_filename)
     /\ folder' = Moved(folder, name, cleaned_filename)
     /\ report' = [report EXCEPT !.separator_cleanups =
                     Append(@, [original_filename |-> name,
                                cleaned_filename |-> cleaned_filename,
                                cleanup_type |-> "trailing_separator"])]
     /\ LookedAt(cleaned_filename, batch.failures)
  \/ /\ cleaned_filename # name
     /\ ~Collides(folder, name, cleaned_filename)
     /\ batch.failures < MaxFailures
     /\ report' = [report EXCEPT !.errors =
                     Append(@, ErrorRow(name, cleaned_filename, "Failed to rename file"))]
     /\ LookedAt(name, batch.failures + 1)
     /\ UNCHANGED folder

\* one file of outlier_scan, up to the prompt if there is one
ScanFile ==
  /\ Busy("outlier_scan")
  /\ Len(batch.prompt) = 0
  /\ Separated(Current, clean_trailing_separators(Current))
  /\ past' = [past EXCEPT !.choice = <<>>]
  /\ UNCHANGED <<names, PDF_FOLDER>>

\* the rest of the loop body once input() has returned choice
Answered(file_name, proposed_filename, original_date, new_date, choice) ==
  \/ /\ ~Accepted(choice)
     /\ Stepped(batch.failures)
     /\ UNCHANGED <<folder, report>>
  \/ /\ Accepted(choice)
     /\ Collides(folder, file_name, proposed_filename)
     /\ report' = [report EXCEPT !.errors =
                     Append(@, ErrorRow(file_name, proposed_filename, "Cannot rename"))]
     /\ Stepped(batch.failures)
     /\ UNCHANGED folder
  \/ /\ Accepted(choice)
     /\ ~Collides(folder, file_name, proposed_filename)
     /\ folder' = Moved(folder, file_name, proposed_filename)
     /\ report' = [report EXCEPT !.date_cleanups =
                     Append(@, [original_filename |-> file_name,
                                cleaned_filename |-> proposed_filename,
                                original_date |-> original_date,
                                new_date |-> new_date,
                                cleanup_type |-> "embedded_date"])]
     /\ Stepped(batch.failures)
  \/ /\ Accepted(choice)
     /\ ~Collides(folder, file_name, proposed_filename)
     /\ batch.failures < MaxFailures
     /\ report' = [report EXCEPT !.errors =
                     Append(@, ErrorRow(file_name, proposed_filename, "Failed to rename file"))]
     /\ Stepped(batch.failures + 1)
     /\ UNCHANGED folder

\* choice = input("Accept this change? (y/n): ")
Answer ==
  /\ Busy("outlier_scan")
  /\ Len(batch.prompt) = 1
  /\ \E choice \in Choices :
       /\ Answered(batch.prompt[1].filename, batch.prompt[1].proposed_filename,
                   batch.prompt[1].original_date, batch.prompt[1].new_date, choice)
       /\ past' = [past EXCEPT !.choice = <<choice>>]
  /\ UNCHANGED <<names, PDF_FOLDER>>

NextRename == StartCleanDates \/ CleanDates \/ StartOutlier \/ ScanFile \/ Answer

\* clean_dates and outlier_scan, run after run over a folder
SpecRename == InitRename /\ [][NextRename]_vars

(***************************************************************************)
(* scan_pdfs, and every operation over a root folder that may be missing.  *)
(***************************************************************************)
\* scan_pdfs(PDF_FOLDER)
StartScan == Started("scan_pdfs")

\* the lists of scan_pdfs after the file: pdf_data (results) has its metadata
\* and error_data (errors) its error, if it has one
Scanned(name, metadata) ==
  report' = [report EXCEPT
               !.results = Append(@, [filename |-> name, metadata |-> metadata]),
               !.errors = IF metadata.error # "None"
                          THEN Append(@, [filename |-> name,
                                          error_type |-> metadata.error])
                          ELSE @]

\* one file of scan_pdfs
ScanPdf ==
  /\ Busy("scan_pdfs")
  /\ Scanned(Current, extract_pdf_metadata(folder[Current]))
  /\ Stepped(batch.failures)
  /\ UNCHANGED <<folder, past>>
  /\ UNCHANGED <<names, PDF_FOLDER>>

\* the folders under a root that is a directory: none, or
\* "Report (2011-0704_093000).pdf" and "(2020) Report.pdf"
RootFolders ==
  {<<>>} \cup
  {(NameOf(<<14, 5>>) :> first) @@ (NameOf(OtherSegs) :> second) :
     first \in {Document(Nothing, 1), Encrypted(1)},
     second \in {Document(Nothing, 2), Encrypted(2)}}

\* the root folder is a directory with one of RootFolders, or is missing
InitRoot ==
  /\ NoNames
  /\ PDF_FOLDER \in {"directory", "missing"}
  /\ folder \in (IF PDF_FOLDER = "directory" THEN RootFolders ELSE {<<>>})
  /\ batch = NoBatch
  /\ report = NoReport
  /\ past = NoPast

NextRoot == StartScan \/ ScanPdf \/ NextWrite \/ NextRename

\* the operations, run after run, over a root folder that may be missing
SpecRoot == InitRoot /\ [][NextRoot]_vars

(***************************************************************************)
(* clean_metadata_fields and import_author_metadata: the two other         *)
(* operations that rewrite documents.  As for metadata_write, past.to_write *)
(* gets the metadata written for each entry (Nothing: no rewrite).         *)
(***************************************************************************)
\* one of the three passes of cleanup
CleanupPass(text) ==
  RStrip(ReSub(trailing_separator, <<>>,
               ReSub(Spaces, <<" ">>, Strip(text, WhiteSpace))),
         {" ", "-"})

\* cleaned_title and cleaned_subject
cleaned_field(value) ==
  CleanupPass(CleanupPass(CleanupPass(ReSub(pdf_extension, <<>>, value))))

\* the entry of metadata_to_write for the field key: its cleaned value when
\* the field is filled and cleaning changes it
CleanedKey(key, value, cleaned_value) ==
  IF value # None /\ cleaned_value # value THEN key :> cleaned_value ELSE Nothing

CleanedField(info, key) ==
  CleanedKey(key, InfoGet(info, key), cleaned_field(InfoGet(info, key)))

\* metadata_to_write of clean_metadata_fields
cleaned_to_write(info) == CleanedField(info, "/Title") @@ CleanedField(info, "/Subject")

\* the document as a new writer writes it: the pages of the file, and to_write
\* as its only metadata
WrittenAnew(file, to_write) == [file EXCEPT !.info = add_metadata(Nothing, to_write)]

\* the entry is done with the metadata to_write chosen for it
Noted(to_write) ==
  past' = [past EXCEPT !.filename_metadata = Append(@, NoMeta),
                       !.to_write = Append(@, to_write)]

\* the folder after a rewrite of name as written that raised at step: in
\* PdfReader ("read") or while the writer is filled ("copy") nothing is
\* written, while the temporary file is written ("write") it is left
\* unfinished, in os.replace ("replace") it is left finished
LeftBy(name, written, step) ==
  IF step \in {"read", "copy"} THEN folder
  ELSE (TempOf(name) :> [written EXCEPT !.whole = (step = "replace")]) @@ folder

\* clean_metadata_fields()
StartCleanFields == Started("clean_metadata_fields")

\* the rest of the loop body of clean_metadata_fields for a file that is
\* read: skipped when encrypted, without metadata or clean, else rewritten
CleanedFields(name, file, to_write) ==
  \/ /\ file.is_encrypted \/ file.info = Nothing \/ to_write = Nothing
     /\ Noted(Nothing)
     /\ Stepped(batch.failures)
     /\ UNCHANGED <<folder, report>>
  \/ /\ ~file.is_encrypted /\ file.info # Nothing /\ to_write # Nothing
     /\ folder' = (name :> WrittenAnew(file, to_write)) @@ Removed(folder, TempOf(name))
     /\ report' = [report EXCEPT !.results =
                     Append(@, [filename |-> name,
                                original_title |-> InfoGet(file.info, "/Title"),
                                cleaned_title |-> InfoGet(to_write, "/Title"),
                                original_subject |-> InfoGet(file.info, "/Subject"),
                                cleaned_subject |-> InfoGet(to_write, "/Subject")])]
     /\ Noted(to_write)
     /\ Stepped(batch.failures)
  \/ /\ ~file.is_encrypted /\ file.info # Nothing /\ to_write # Nothing
     /\ batch.failures < MaxFailures
     /\ \E step \in {"copy", "write", "replace"} :
          folder' = LeftBy(name, WrittenAnew(file, to_write), step)
     /\ report' = [report EXCEPT !.errors =
                     Append(@, ErrorRow(name, None, "Failed to write cleaned metadata"))]
     /\ Noted(to_write)
     /\ Stepped(batch.failures + 1)
  \/ /\ batch.failures < MaxFailures
     /\ report' = [report EXCEPT !.errors =
                     Append(@, ErrorRow(name, None, "Error processing file"))]
     /\ Noted(Nothing)
     /\ Stepped(batch.failures + 1)
     /\ UNCHANGED folder

\* one file of clean_metadata_fields
CleanFields ==
  /\ Busy("clean_metadata_fields")
  /\ CleanedFields(Current, folder[Current], cleaned_to_write(folder[Current].info))
  /\ UNCHANGED <<names, PDF_FOLDER>>

\* f"{name} - ({author.strip()}){ext}"
AuthoredName(file_name, author, ext) ==
  SubSeq(file_name, 1, ext - 1) \o <<" ", "-", " ", "(">> \o author \o <<")">>
  \o SubSeq(file_name, ext, Len(file_name))

\* the rows of Corrections.csv: "Report.pdf" with the author " J",
\* "(2020) Report.pdf" with the author "J", "Report.pdf" with no author, and
\* a file that is not in the folder
CsvRow(sg, author) == [filename |-> NameOf(sg), author |-> author]

CsvRows ==
  {<<>>,
   <<CsvRow(<<14>>, <<" ", "J">>)>>,
   <<CsvRow(<<14>>, <<" ", "J">>), CsvRow(OtherSegs, <<"J">>)>>,
   <<CsvRow(<<14>>, None), CsvRow(OtherSegs, <<"J">>)>>,
   <<CsvRow(<<14, 14>>, <<"J">>), CsvRow(<<14>>, <<"J">>)>>}

\* import_author_metadata(): the rows of the CSV file are read
StartImport ==
  /\ Startable
  /\ \E rows \in CsvRows :
       batch' = [batch EXCEPT !.op = "import_author_metadata", !.files = rows,
                              !.done = 0, !.runs = @ + 1]
  /\ report' = NoReport
  /\ past' = [before |-> folder, filename_metadata |-> <<>>, to_write |-> <<>>,
              choice |-> <<>>]
  /\ UNCHANGED folder
  /\ UNCHANGED <<names, PDF_FOLDER>>

\* the rest of the loop body of import_author_metadata once the document is
\* rewritten as authored: the file is renamed to new_filename, or the name is
\* taken, or os.rename raises
AuthorRenamed(name, author, authored, new_filename) ==
  \/ /\ ~Collides(authored, name, new_filename)
     /\ folder' = Moved(authored, name, new_filename)
     /\ report' = [report EXCEPT
                     !.metadata_written = Append(@, [filename |-> name, author |-> author]),
                     !.results = Append(@, [original_filename |-> name,
                                            new_filename |-> new_filename])]
     /\ Stepped(batch.failures)
  \/ /\ Collides(authored, name, new_filename)
     /\ folder' = authored
     /\ report' = [report EXCEPT
                     !.metadata_written = Append(@, [filename |-> name, author |-> author]),
                     !.errors = Append(@, ErrorRow(name, new_filename, "Cannot rename"))]
     /\ Stepped(batch.failures)
  \/ /\ ~Collides(authored, name, new_filename)
     /\ batch.failures < MaxFailures
     /\ folder' = authored
     /\ report' = [report EXCEPT
                     !.metadata_written = Append(@, [filename |-> name, author |-> author]),
                     !.errors = Append(@, ErrorRow(name, new_filename, "Error processing entry"))]
     /\ Stepped(batch.failures + 1)

\* the loop body of import_author_metadata for a row with an author
Imported(name, author, to_write) ==
  \/ /\ name \notin DOMAIN folder
     /\ report' = [report EXCEPT !.errors =
                     Append(@, ErrorRow(name, None, "File not found"))]
     /\ Noted(Nothing)
     /\ Stepped(batch.failures)
     /\ UNCHANGED folder
  \/ /\ name \in DOMAIN folder
     /\ folder[name].is_encrypted
     /\ Noted(Nothing)
     /\ Stepped(batch.failures)
     /\ UNCHANGED <<folder, report>>
  \/ /\ name \in DOMAIN folder
     /\ ~folder[name].is_encrypted
     /\ Noted(to_write)
     /\ AuthorRenamed(name, author,
                      (name :> WrittenAnew(folder[name], to_write)) @@ Removed(folder, TempOf(name)),
                      AuthoredName(name, Strip(author, WhiteSpace), splitext(name)))
  \/ /\ name \in DOMAIN folder
     /\ batch.failures < MaxFailures
     /\ \E step \in {"read", "copy", "write", "replace"} :
          /\ step # "read" => ~folder[name].is_encrypted
          /\ folder' = LeftBy(name, WrittenAnew(folder[name], to_write), step)
          /\ Noted(IF step = "read" THEN Nothing ELSE to_write)
     /\ report' = [report EXCEPT !.errors =
                     Append(@, ErrorRow(name, None, "Error processing entry"))]
     /\ Stepped(batch.failures + 1)

\* one row of import_author_metadata
ImportAuthor ==
  /\ Busy("import_author_metadata")
  /\ \/ /\ Current.author = None
        /\ Noted(Nothing)
        /\ Stepped(batch.failures)
        /\ UNCHANGED <<folder, report>>
     \/ /\ Current.author # None
        /\ Imported(Current.filename, Current.author,
                    "/Author" :> Strip(Current.author, WhiteSpace))
  /\ UNCHANGED <<names, PDF_FOLDER>>

\* what the fields of the first document hold: nothing, clean values, or a
\* title or a subject that cleaning changes
FieldInfos ==
  {Nothing,
   "/Title" :> Filled,
   ("/Title" :> <<"X", " ", "-">>) @@ ("/Author" :> Filled),
   ("/Title" :> Filled) @@ ("/Subject" :> <<"X", ".", "p", "d", "f">>) @@ ("/Keywords" :> Filled),
   ("/Author" :> Filled) @@ ("/Keywords" :> Filled),
   [key \in InfoKeys |-> Filled]}

\* "Report.pdf" with one of FieldInfos or encrypted, beside "(2020) Report.pdf"
\* or "Report - (J).pdf"
InitFields ==
  /\ NoNames
  /\ \E first \in {Document(info, 1) : info \in FieldInfos} \cup {Encrypted(1)} :
       \E second \in {<<NameOf(OtherSegs), Document(Nothing, 2)>>,
                      <<NameOf(OtherSegs), Encrypted(2)>>,
                      <<AuthoredName(NameOf(<<14>>), <<"J">>, splitext(NameOf(<<14>>))),
                        Document(Nothing, 2)>>} :
         folder = (NameOf(<<14>>) :> first) @@ (second[1] :> second[2])
  /\ batch = NoBatch
  /\ report = NoReport
  /\ past = NoPast
  /\ PDF_FOLDER = "directory"

NextFields == StartCleanFields \/ CleanFields \/ StartImport \/ ImportAuthor \/ NextWrite

\* the operations that rewrite documents, run after run over a folder
SpecFields == InitFields /\ [][NextFields]_vars

(***************************************************************************)
(* metadata_write_dryrun: the preview of metadata_write.                   *)
(***************************************************************************)
\* metadata_write_dryrun()
StartDryrun == Started("metadata_write_dryrun")

\* will_write: what the preview says will be written
will_write(pdf_metadata) ==
  [date |-> TRUE,
   author |-> ~pdf_metadata.has_author,
   tags |-> TRUE,
   title |-> ~(pdf_metadata.has_title \/ pdf_metadata.has_subject),
   subject |-> ~(pdf_metadata.has_title \/ pdf_metadata.has_subject)]

\* value if flag else None
IfElseNone(flag, value) == IF flag THEN value ELSE None

\* the row of results for the file
PreflightRow(name, filename_metadata, pdf_metadata, will) ==
  [filename |-> name,
   new_date |-> filename_metadata.date,
   current_author |-> pdf_metadata.author,
   new_author |-> IfElseNone(will.author, filename_metadata.author),
   fn_author |-> IfElseNone(~will.author, filename_metadata.author),
   current_tags |-> pdf_metadata.tags,
   new_tags |-> JoinWith(<<",", " ">>, filename_metadata.tags),
   current_title |-> pdf_metadata.title,
   new_title |-> IfElseNone(will.title, filename_metadata.title),
   fn_title |-> IfElseNone(~will.title, filename_metadata.title),
   current_subject |-> pdf_metadata.subject,
   new_subject |-> IfElseNone(will.subject, filename_metadata.title),
   will_write_date |-> will.date,
   will_write_author |-> will.author,
   will_write_tags |-> filename_metadata.tags # <<>>,
   will_write_title |-> will.title,
   will_write_subject |-> will.subject]

\* the lists of metadata_write_dryrun after the file
Previewed(name, filename_metadata, pdf_metadata) ==
  report' = [report EXCEPT
    !.duplicate_authors =
       IF filename_metadata.duplicate_authors # <<>>
       THEN Append(@, [filename |-> name,
                       authors |-> filename_metadata.duplicate_authors])
       ELSE @,
    !.untagged_files =
       IF filename_metadata.author = None /\ filename_metadata.tags = <<>>
          /\ filename_metadata.date # None
       THEN Append(@, [filename |-> name])
       ELSE @,
    !.results = Append(@, PreflightRow(name, filename_metadata, pdf_metadata,
                                       will_write(pdf_metadata)))]

\* one file of metadata_write_dryrun
DryrunFile ==
  /\ Busy("metadata_write_dryrun")
  /\ Previewed(Current, parse_filename_metadata(Current),
               extract_pdf_metadata(folder[Current]))
  /\ Stepped(batch.failures)
  /\ UNCHANGED <<folder, past>>
  /\ UNCHANGED <<names, PDF_FOLDER>>

NextDryrun == StartDryrun \/ DryrunFile

\* metadata_write_dryrun, run after run over a folder of two documents
SpecDryrun == InitWrite /\ [][NextDryrun]_vars

(***************************************************************************)
(* What a filename denotes, read off its segments and not computed by the  *)
(* code: the yardstick of the properties below.                            *)
(***************************************************************************)
Positions == 1..Len(segs)

Seg(j) == Tokens[segs[j]]

OfKind(kinds) == {j \in Positions : Seg(j).k \in kinds}

\* the bracketed full-precision tokens that denote a calendar date
ValidFull == {j \in OfKind({"iso", "compact", "stamp"}) : Seg(j).d # None}

\* the bracketed tokens of full-precision shape that denote no calendar date
InvalidFull == {j \in OfKind({"iso", "compact", "stamp"}) : Seg(j).d = None}

\* no full-precision date anywhere in the name, bracketed or in free text
NoFullDate == \A j \in OfKind({"iso", "compact", "stamp", "digits"}) : Seg(j).d = None

Years == OfKind({"year"})

Months == OfKind({"month"})

Ranges == OfKind({"range"})

\* the months in a bracket after the first bare-year bracket
MonthsAfterYear == {j \in Months : j > SetMin(Years)}

\* the date of segs[j] is before the date of segs[i]
Earlier(j, i) == StrLess(Seg(j).d, Seg(i).d)

\* the earliest of the dates of the segments S
Earliest(S) == Seg(CHOOSE j \in S : \A i \in S : ~Earlier(i, j)).d

MidYear(y) == y \o <<"-", "0", "6", "-", "0", "1">>

FirstOfMonth(y, m) == y \o <<"-">> \o m \o <<"-", "0", "1">>

\* x is YYYY-MM-DD and a date of the calendar (years 0001 to 9999)
RealDate(x) ==
  /\ Len(x) = 10
  /\ x[5] = "-" /\ x[8] = "-"
  /\ \A j \in {1, 2, 3, 4, 6, 7, 9, 10} : x[j] \in Digit
  /\ LET y == ToInt(SubSeq(x, 1, 4))
         m == ToInt(SubSeq(x, 6, 7))
         d == ToInt(SubSeq(x, 9, 10))
     IN y >= 1 /\ m \in 1..12 /\ d >= 1 /\ d <= DaysInMonth(y, m)

\* the name starts with a valid ISO date in parentheses, and text follows
HasDatePrefix ==
  /\ Len(segs) >= 2
  /\ Seg(1).k = "iso" /\ Seg(1).d # None /\ Head(Seg(1).s) = "("

\* "(" ISO-date ")" SP Title [" - (" Author ")"] [" [" Tag "]"]*, and no other
\* date-shaped token
IsCanonical ==
  /\ HasDatePrefix
  /\ Seg(2).k = "word"
  /\ \/ \A j \in 3..Len(segs) : Seg(j).k = "tag"
     \/ /\ Len(segs) >= 4
        /\ Seg(3).k = "dash" /\ Seg(4).k = "author"
        /\ \A j \in 5..Len(segs) : Seg(j).k = "tag"

(***************************************************************************)
(* C1.  Normalising twice equals normalising once: for every filename with *)
(* a non-null inferred date, clean_filename applied to the name returned   *)
(* by clean_filename returns that same name and the same date.             *)
(* Violated: "( 2019) (2020).pdf" becomes "(2020-06-01) (2019) .pdf", and  *)
(* that becomes "(2020-06-01) .pdf".                                       *)
(***************************************************************************)
C1_NormalizeIdempotent ==
  (pc = "recleaned" /\ cleaned.date # None) => recleaned = cleaned

(***************************************************************************)
(* C2.  A filename already in the canonical grammar "(YYYY-MM-DD) Title -  *)
(* (Author) [Tag]...", with a valid date prefix and no other date-shaped   *)
(* token, is returned by clean_filename character for character.           *)
(* Violated: "(2020-05-01) Report [tax].pdf" loses its tag, the last       *)
(* pattern of the list removes every bracket that holds only letters.      *)
(***************************************************************************)
C2_CanonicalNameKept ==
  (pc = "cleaned" /\ IsCanonical) => cleaned.name = filename

(***************************************************************************)
(* C3, as stated.  For every valid ISO date d and every remainder,         *)
(* parse_date_from_parentheses("(" + d + ") " + remainder) is exactly d.   *)
(* Violated: "(2020-05-01) [2019-01-02].pdf" gives 2019-01-02, the         *)
(* earliest of the full dates.                                             *)
(***************************************************************************)
C3_PrefixDateReturned ==
  (pc = "inferred" /\ HasDatePrefix) => date = Seg(1).d

(***************************************************************************)
(* C3, amended.  For every valid ISO date d and every remainder,           *)
(* parse_date_from_parentheses("(" + d + ") " + remainder) is a real       *)
(* calendar date that is not later than d, and it is exactly d when the    *)
(* remainder holds no full-precision date (bracketed, or eight digits in   *)
(* free text) earlier than d.                                              *)
(***************************************************************************)
C3_PrefixDateUnlessEarlier ==
  (pc = "inferred" /\ HasDatePrefix) =>
    /\ RealDate(date)
    /\ ~StrLess(Seg(1).d, date)
    /\ (\A j \in OfKind({"iso", "compact", "stamp", "digits"}) :
          Seg(j).d # None => ~Earlier(j, 1))
       => date = Seg(1).d

\* C3: a date prefix followed by a later full date; the prefix date is returned
C3_Witness ==
  /\ pc = "inferred" /\ HasDatePrefix
  /\ \E j \in ValidFull : Earlier(1, j)
  /\ date = Seg(1).d

(***************************************************************************)
(* C4.  Every non-null date returned by parse_date_from_parentheses, on    *)
(* any return path, is a YYYY-MM-DD string denoting a real calendar date.  *)
(* Violated: "(0000).pdf" gives 0000-06-01, and there is no year 0.        *)
(***************************************************************************)
C4_InferredDateReal ==
  (pc = "inferred" /\ date # None) => RealDate(date)

\* the date of a "YYYY-MM-DD 12:00:00" value of parse_filename_metadata
DatePart(x) == SubSeq(x, 1, Len(x) - Len(TimeOfDay))

(***************************************************************************)
(* C5.  The date parse_filename_metadata reports is null or a real         *)
(* calendar date: a prefix such as "(2023-02-30)" is not accepted, a       *)
(* year-only prefix gives YYYY-06-01, a year-month prefix gives YYYY-MM-01.*)
(* Violated: "(2023-02-30) Report.pdf" gives "2023-02-30 12:00:00", and    *)
(* "(2020-03) Report.pdf" gives "2020-03 12:00:00".                        *)
(***************************************************************************)
C5_MetadataDateReal ==
  (pc = "parsed" /\ meta.date # None) => RealDate(DatePart(meta.date))

(***************************************************************************)
(* C6.  When a filename holds bracketed full-precision date tokens of      *)
(* which at least one is a valid calendar date,                            *)
(* parse_date_from_parentheses returns the earliest of the valid ones,     *)
(* wherever they stand.                                                    *)
(* Violated: "(2020) 12345678 (20210805).pdf" gives 2020-06-01: the        *)
(* compact pattern matches from "(2020)" across the eight free digits to   *)
(* the ")" of "(20210805)", and the token is never seen.                   *)
(***************************************************************************)
C6_EarliestValidReturned ==
  (pc = "inferred" /\ ValidFull # {}) => date = Earliest(ValidFull)

\* the filename without its tokens of full-precision shape that are no date
WithoutInvalid == NameOf(SelectSeq(segs, LAMBDA t : ~(Tokens[t].k \in {"iso", "compact", "stamp"} /\ Tokens[t].d = None)))

(***************************************************************************)
(* C7.  A token of full-precision shape that is no valid calendar date is  *)
(* dropped: the result is the one the rest of the filename gives alone.    *)
(* Violated: "(2023-02-30) 12345678 (20210805).pdf" gives null, while      *)
(* "12345678 (20210805).pdf" gives 2021-08-05.                             *)
(***************************************************************************)
C7_InvalidTokenDropped ==
  (pc = "inferred" /\ InvalidFull # {}) =>
    date = parse_date_from_parentheses(WithoutInvalid)

(***************************************************************************)
(* C8, as stated.  With no full-precision date, a bare-year bracket and a  *)
(* separate month-name bracket give YYYY-MM-01 whichever comes first.      *)
(* Violated: "(March) (2020).pdf" gives 2020-06-01.                        *)
(***************************************************************************)
C8_YearAndMonthAnyOrder ==
  (pc = "inferred" /\ NoFullDate /\ OfKind({"monthyear"}) = {}
     /\ Years # {} /\ Months # {}) =>
    date = FirstOfMonth(Seg(SetMin(Years)).y, Seg(SetMin(Months)).m)

(***************************************************************************)
(* C8, amended.  With no full-precision date and no month+year bracket, a  *)
(* bare-year bracket and a month-name bracket give YYYY-MM-01 (the first   *)
(* bare year, the first month after it) only when a month-name bracket     *)
(* comes after the first bare-year bracket.  When every month-name bracket *)
(* comes before it, the month is ignored: the result is the start of the   *)
(* first year range, or else the first bare year, with -06-01.             *)
(***************************************************************************)
C8_YearThenMonth ==
  (pc = "inferred" /\ NoFullDate /\ OfKind({"monthyear"}) = {}
     /\ Years # {} /\ Months # {}) =>
    IF MonthsAfterYear # {}
    THEN date = FirstOfMonth(Seg(SetMin(Years)).y, Seg(SetMin(MonthsAfterYear)).m)
    ELSE IF Ranges # {} THEN date = MidYear(Seg(SetMin(Ranges)).y)
    ELSE date = MidYear(Seg(SetMin(Years)).y)

\* C8: a bare year, then a month name: the two are combined
C8_Witness ==
  /\ pc = "inferred" /\ NoFullDate /\ OfKind({"monthyear"}) = {}
  /\ Years # {} /\ MonthsAfterYear # {}
  /\ date = FirstOfMonth(Seg(SetMin(Years)).y, Seg(SetMin(MonthsAfterYear)).m)

(***************************************************************************)
(* C9.  A filename whose only date-shaped token is a year-month bracket    *)
(* (YYYY-MM) is inferred as YYYY-MM-01, not as null.                       *)
(* Violated: "(2020-03).pdf" gives null, the year_month pattern is used by *)
(* no pass.                                                                *)
(***************************************************************************)
C9_YearMonthBracket ==
  (pc = "inferred" /\ OfKind({"yearmonth"}) # {}
     /\ OfKind({"yearmonth", "word"}) = Positions) =>
    date = FirstOfMonth(Seg(SetMin(OfKind({"yearmonth"}))).y,
                        Seg(SetMin(OfKind({"yearmonth"}))).m)

(***************************************************************************)
(* C10.  With no full-precision date and no month (no month-name bracket,  *)
(* no month+year bracket, no year-month bracket), a filename with a year   *)
(* range (Y1-Y2) gives Y1-06-01, also when a bare year stands elsewhere in *)
(* the name; a filename with bare years only gives Y-06-01 for the first.  *)
(***************************************************************************)
C10_RangeThenYear ==
  (pc = "inferred" /\ NoFullDate
     /\ OfKind({"month", "monthyear", "yearmonth"}) = {}) =>
    /\ Ranges # {} => date = MidYear(Seg(SetMin(Ranges)).y)
    /\ (Ranges = {} /\ Years # {}) => date = MidYear(Seg(SetMin(Years)).y)

\* C10: a bare year before a year range: the start of the range is returned
C10_Witness ==
  /\ pc = "inferred" /\ NoFullDate
  /\ OfKind({"month", "monthyear", "yearmonth"}) = {}
  /\ Ranges # {} /\ Years # {} /\ SetMin(Years) < SetMin(Ranges)
  /\ date = MidYear(Seg(SetMin(Ranges)).y)
  /\ date # MidYear(Seg(SetMin(Years)).y)
DateShapes ==
  <<full_date, compact_date, year_month, year, text_month_year,
    text_month_range, year_range, expense_date, short_month>>

\* some bracketed token of s has one of the shapes
HoldsDateToken(s) == \E j \in 1..Len(DateShapes) : Len(FindIter(DateShapes[j], s)) > 0

\* a name returned with a date: what follows the prepended "(YYYY-MM-DD) "
AfterPrefix(name) == SubSeq(name, 14, Len(name))

(***************************************************************************)
(* C12.  For every filename with a non-null inferred date, the name that   *)
(* clean_filename returns holds, after the prepended "(date) ", no         *)
(* bracketed token of any shape of the pattern table.                      *)
(* Violated: "( 2019) (2020).pdf" becomes "(2020-06-01) (2019) .pdf": no   *)
(* removal pattern allows the space in "( 2019)", and the clean-up that    *)
(* follows the removal closes it up into the bare-year bracket "(2019)".   *)
(***************************************************************************)
C12_NoDateTokenLeft ==
  (pc = "cleaned" /\ cleaned.date # None) => ~HoldsDateToken(AfterPrefix(cleaned.name))
\* the text between the brackets of a bracketed segment
Inner(token) == SubSeq(token.s, 2, Len(token.s) - 1)

(***************************************************************************)
(* C13.  For every canonical filename "(D) T - (A) [g1] ... [gn].ext",     *)
(* parse_filename_metadata returns date = D, author = A, tags = g1 ... gn  *)
(* in order and title = T, without the separator and the extension.        *)
(* Violated: "(2020-05-01) Report - (Jane) [tax].pdf" gives the title      *)
(* "Report - .pdf" and the date "2020-05-01 12:00:00".                     *)
(***************************************************************************)
C13_CanonicalParsed ==
  (pc = "parsed" /\ IsCanonical /\ Len(segs) >= 4 /\ Seg(4).k = "author") =>
    /\ meta.date = Seg(1).d
    /\ meta.author = Inner(Seg(4))
    /\ meta.tags = [j \in 1..(Len(segs) - 4) |-> Inner(Seg(j + 4))]
    /\ meta.title = Seg(2).s
(***************************************************************************)
(* What the run of a batch operation did, entry by entry, and what the     *)
(* name of a document denotes, read off its segments.                      *)
(***************************************************************************)
\* the entries of the listing that are done
Done == 1..batch.done

NameAt(i) == batch.files[i]

\* the document of entry i as the run found it, and as it is now
Before(i) == past.before[NameAt(i)]

Now(i) == folder[NameAt(i)]

\* the segments of the names of the documents
SegsOf ==
  [name \in {NameOf(sg) : sg \in WriteSegs \cup {OtherSegs}} |->
     CHOOSE sg \in WriteSegs \cup {OtherSegs} : NameOf(sg) = name]

\* the segments after the date prefix (YYYY), (YYYY-MM) or (YYYY-MM-DD)
AfterDate(sg) ==
  IF Len(sg) > 0 /\ Tokens[sg[1]].k \in {"iso", "year", "yearmonth"}
     /\ Head(Tokens[sg[1]].s) = "("
  THEN Tail(sg) ELSE sg

\* the texts inside brackets[j]
Inners(brackets) == [j \in 1..Len(brackets) |-> Strip(Inner(Tokens[brackets[j]]), WhiteSpace)]

\* the texts of the brackets after the date prefix that begin with open, in order
Contents(sg, open) ==
  Inners(SelectSeq(AfterDate(sg), LAMBDA token : Head(Tokens[token].s) = open))

\* the parentheticals and the tags of entry i
AuthorsAt(i) == Contents(SegsOf[NameAt(i)], "(")

TagsAt(i) == Contents(SegsOf[NameAt(i)], "[")

FieldBefore(i, key) == InfoGet(Before(i).info, key)

FieldNow(i, key) == InfoGet(Now(i).info, key)

\* the names of the rows of a list
NamesOf(rows) == {rows[k].filename : k \in 1..Len(rows)}

\* entry i was rewritten by this run
Rewrote(i) ==
  NameAt(i) \in NamesOf(report.metadata_written) \cup NamesOf(report.untagged_files)

(***************************************************************************)
(* C14.  The parentheticals after the date prefix are all accounted for in *)
(* order: parse_filename_metadata gives the first as author and the others *)
(* as duplicate_authors, and metadata_write writes into /Author the first  *)
(* one or nothing, so that the document's author is the one it had or the  *)
(* first parenthetical.                                                    *)
(***************************************************************************)
C14_AuthorsAccounted ==
  \A i \in Done : ~Before(i).is_encrypted =>
    /\ past.filename_metadata[i].author =
         (IF Len(AuthorsAt(i)) > 0 THEN AuthorsAt(i)[1] ELSE None)
    /\ past.filename_metadata[i].duplicate_authors =
         (IF Len(AuthorsAt(i)) > 1 THEN Tail(AuthorsAt(i)) ELSE <<>>)
    /\ "/Author" \in DOMAIN past.to_write[i] =>
         Len(AuthorsAt(i)) > 0 /\ past.to_write[i]["/Author"] = AuthorsAt(i)[1]
    /\ \/ FieldNow(i, "/Author") = FieldBefore(i, "/Author")
       \/ Len(AuthorsAt(i)) > 0 /\ FieldNow(i, "/Author") = AuthorsAt(i)[1]

\* C14: a name with two different parentheticals after its date prefix, the
\* first written as the author of a document that had none
C14_Witness ==
  \E i \in Done :
    /\ Len(AuthorsAt(i)) = 2 /\ AuthorsAt(i)[1] # AuthorsAt(i)[2]
    /\ AfterDate(SegsOf[NameAt(i)]) # SegsOf[NameAt(i)]
    /\ past.filename_metadata[i].duplicate_authors = <<AuthorsAt(i)[2]>>
    /\ FieldBefore(i, "/Author") = None
    /\ FieldNow(i, "/Author") = AuthorsAt(i)[1]

(***************************************************************************)
(* C15.  metadata_write never changes an author field that is non-empty    *)
(* before the run: /Author is in the write set only if the filename has an *)
(* author and the document's author is empty.                              *)
(***************************************************************************)
C15_AuthorKept ==
  \A i \in Done :
    /\ FieldBefore(i, "/Author") # None =>
         FieldNow(i, "/Author") = FieldBefore(i, "/Author")
    /\ "/Author" \in DOMAIN past.to_write[i] =>
         /\ Len(AuthorsAt(i)) > 0 /\ AuthorsAt(i)[1] # None
         /\ FieldBefore(i, "/Author") = None

\* C15: a document with an author is rewritten under a name with another
\* author, and keeps its own
C15_Witness ==
  \E i \in Done :
    /\ Rewrote(i)
    /\ FieldBefore(i, "/Author") = Filled
    /\ Len(AuthorsAt(i)) > 0 /\ AuthorsAt(i)[1] # Filled
    /\ FieldNow(i, "/Author") = Filled
    /\ FieldNow(i, "/CreationDate") # FieldBefore(i, "/CreationDate")

(***************************************************************************)
(* C16.  metadata_write writes /Title and /Subject only when the           *)
(* document's title and subject are both empty before the run: when either *)
(* is filled, neither is in the write set and neither is changed.          *)
(* Violated: "(2020-05-01) Report.pdf" with the title "X" is rewritten     *)
(* with title and subject "Report": lines 764-787 never look at the        *)
(* document's title or subject.                                            *)
(***************************************************************************)
C16_TitleSubjectKept ==
  \A i \in Done :
    (FieldBefore(i, "/Title") # None \/ FieldBefore(i, "/Subject") # None) =>
      /\ DOMAIN past.to_write[i] \cap {"/Title", "/Subject"} = {}
      /\ FieldNow(i, "/Title") = FieldBefore(i, "/Title")
      /\ FieldNow(i, "/Subject") = FieldBefore(i, "/Subject")

Rows ==
  Len(report.metadata_written) + Len(report.untagged_files)
  + Len(report.errors) + Len(report.skipped_files)

RenameUnderWay ==
  batch.op \in {"clean_dates", "outlier_scan"} /\ batch.done < Len(batch.files)

\* outlier_scan waits for the answer to a proposal
Asking == Len(batch.prompt) = 1

\* the name the file under way bears, and the name its next rename would
\* give it: the cleaned name, or the name proposed for the embedded date
Source == IF Asking THEN batch.prompt[1].filename ELSE Current

Destination ==
  IF Asking THEN batch.prompt[1].proposed_filename
  ELSE IF batch.op = "clean_dates" THEN clean_filename(Current).name
  ELSE clean_trailing_separators(Current)

\* another file has the destination, which is no case variant of the source
Taken ==
  /\ Destination # Source
  /\ Destination \in DOMAIN folder
  /\ Lower(Destination) # Lower(Source)

\* the step leaves every file: no name gets another document, and every
\* document is still there
NothingOverwritten ==
  \A n \in DOMAIN folder :
    /\ n \in DOMAIN folder' => folder'[n] = folder[n]
    /\ \E m \in DOMAIN folder' : folder'[m] = folder[n]

\* the step renames nothing and goes to the next entry of the same listing,
\* with the error row of the collision (or with no row: the proposal was
\* declined)
CollisionRecorded ==
  /\ folder' = folder
  /\ batch'.op = batch.op /\ batch'.files = batch.files
  /\ batch'.done = batch.done + 1
  /\ \/ report' = [report EXCEPT !.errors =
                     Append(@, ErrorRow(Source, Destination, "Cannot rename"))]
     \/ Asking /\ report' = report

(***************************************************************************)
(* C19.  In clean_dates and outlier_scan no step overwrites a file; when   *)
(* the destination of the rename of the file under way is the name of      *)
(* another file and no case variant of the source, the step renames        *)
(* nothing, records the error row of the collision and goes on to the next *)
(* entry of the same listing.                                              *)
(***************************************************************************)
C19_NoRenameOntoExisting ==
  [][/\ NothingOverwritten
     /\ (RenameUnderWay /\ Taken) => CollisionRecorded]_vars

\* C19: a finished run of outlier_scan whose first entry met a collision in
\* the separator step and whose later entry was renamed on an accepted
\* proposal
C19_Witness ==
  /\ batch.op = "outlier_scan" /\ batch.done = Len(batch.files)
  /\ Len(report.errors) = 1
  /\ report.errors[1].error = "Cannot rename"
  /\ report.errors[1].filename = batch.files[1]
  /\ report.errors[1].intended_filename \in DOMAIN past.before
  /\ batch.files[1] \in DOMAIN folder
  /\ \E k \in 1..Len(report.date_cleanups) :
       /\ report.date_cleanups[k].original_filename \in
            {batch.files[i] : i \in 2..Len(batch.files)}
       /\ report.date_cleanups[k].cleaned_filename \in DOMAIN folder

\* a run of clean_dates is over
CleanDatesOver == batch.op = "clean_dates" /\ batch.done = Len(batch.files)

\* the normalised name of every file the run found
Normalised == [n \in DOMAIN past.before |-> clean_filename(n).name]

\* the files the run found whose normalised name is that of name
SameNormalised(norm, name) == {n \in DOMAIN norm : norm[n] = norm[name]}

\* the rows of rows about one of the files of S
RowsAbout(rows, S, field) == {k \in 1..Len(rows) : rows[k][field] \in S}

CollisionRows(S) ==
  {k \in RowsAbout(report.errors, S, "filename") :
     report.errors[k].error = "Cannot rename"}

\* the documents of the files of S are still in the folder
ContentsKept(S) ==
  \A n \in S : \E m \in DOMAIN folder : folder[m] = past.before[n]

\* among the files of S one was renamed and one has a collision error
OneRenameOneCollision(S) ==
  /\ Cardinality(RowsAbout(report.results, S, "original_filename")) = 1
  /\ Cardinality(CollisionRows(S)) = 1

PairsSettled(norm) ==
  \A a, b \in DOMAIN norm :
    (a # b /\ norm[a] = norm[b]) =>
      OneRenameOneCollision({a, b}) /\ ContentsKept({a, b})

LonePairsSettled(norm) ==
  \A a \in DOMAIN norm :
    (/\ Cardinality(SameNormalised(norm, a)) = 2
     /\ norm[a] \notin DOMAIN norm
     /\ batch.failures = 0) =>
      /\ OneRenameOneCollision(SameNormalised(norm, a))
      /\ norm[a] \in DOMAIN folder

LonePairCollided(norm) ==
  \E a, b \in DOMAIN norm :
    /\ a # b /\ SameNormalised(norm, a) = {a, b}
    /\ norm[a] \notin DOMAIN norm
    /\ Len(report.results) = 1 /\ report.results[1].original_filename = a
    /\ Len(report.errors) = 1 /\ report.errors[1].filename = b
    /\ report.errors[1].error = "Cannot rename"
    /\ b \in DOMAIN folder /\ folder[b] = past.before[b]
    /\ norm[a] \in DOMAIN folder /\ folder[norm[a]] = past.before[a]

RewriteFailed == batch'.failures = batch.failures + 1

\* the lists of the report other than errors are as they were
OnlyErrorsGrew ==
  /\ report'.metadata_written = report.metadata_written
  /\ report'.untagged_files = report.untagged_files
  /\ report'.skipped_files = report.skipped_files

\* the failed step leaves every file but the temporary one of the file under
\* way, adds no other file, records the error of the file under way and goes
\* on to the next entry of the same listing
FailureContained ==
  /\ \A n \in DOMAIN folder \ {TempOf(Current)} :
       n \in DOMAIN folder' /\ folder'[n] = folder[n]
  /\ DOMAIN folder' \subseteq DOMAIN folder \cup {TempOf(Current)}
  /\ Len(report'.errors) = Len(report.errors) + 1
  /\ report'.errors[Len(report'.errors)].filename = Current
  /\ SubSeq(report'.errors, 1, Len(report.errors)) = report.errors
  /\ OnlyErrorsGrew
  /\ batch'.op = batch.op /\ batch'.files = batch.files
  /\ batch'.done = batch.done + 1

\* a document that changes is the one under way, replaced by a temporary
\* file written to its end, which is gone from under its temporary name, in
\* a step where nothing raised
OnlyReplaced ==
  \A n \in DOMAIN folder :
    /\ IsPdf(n) => n \in DOMAIN folder'
    /\ (IsPdf(n) /\ folder'[n] # folder[n]) =>
         /\ batch.done < Len(batch.files) /\ n = Current
         /\ ~RewriteFailed
         /\ folder'[n].whole
         /\ folder'[n].pages = folder[n].pages
         /\ TempOf(n) \notin DOMAIN folder'

(***************************************************************************)
(* C21.  A rewrite of metadata_write that fails leaves the original file   *)
(* and every other document as they were, leaves behind at most the file   *)
(* <path>.tmp, records one error for the file and goes on with the next    *)
(* entry; and a document only ever changes by being replaced with a        *)
(* temporary file that was written to its end.                             *)
(***************************************************************************)
C21_FailureLeavesOriginal ==
  [][/\ OnlyReplaced
     /\ RewriteFailed => FailureContained]_vars

\* C21: the rewrite of the first entry failed while its temporary file was
\* written: the document is as the run found it beside an unfinished .tmp,
\* the error is recorded, and the second entry is done
C21_Witness ==
  /\ batch.op = "metadata_write" /\ batch.runs = 1 /\ batch.done = 2
  /\ batch.failures = 1
  /\ Now(1) = Before(1)
  /\ TempOf(NameAt(1)) \in DOMAIN folder
  /\ ~folder[TempOf(NameAt(1))].whole
  /\ NamesOf(report.errors) = {NameAt(1)}
  /\ NameAt(2) \in NamesOf(report.metadata_written)
                   \cup NamesOf(report.untagged_files)
                   \cup NamesOf(report.skipped_files)

(***************************************************************************)
(* The confirmation of outlier_scan.                                       *)
(***************************************************************************)
\* the answers that are a "y", whatever the case and the spaces around it
ApplyAnswers == {<<"y">>, <<"Y", " ">>}

\* the step renames on an embedded date: a row of date_cleanups is added
DateRenamed == Len(report'.date_cleanups) > Len(report.date_cleanups)

\* the step takes the answer to the proposal that was waiting
Answering == Asking /\ Len(past'.choice) = 1

\* the names that are in the folder after the step and were not before it
NewNames == DOMAIN folder' \ DOMAIN folder

(***************************************************************************)
(* C22.  Within a run of outlier_scan a rename on an embedded date happens *)
(* only in the step that takes the answer to its proposal, and only when   *)
(* that answer is a "y": it then gives the file the proposed name.  Every  *)
(* other answer (the empty one too) leaves the folder and the report as    *)
(* they were and goes on to the next entry; and a step that takes no       *)
(* answer gives a file no other new name than the one cleaned of its       *)
(* trailing separators.                                                    *)
(***************************************************************************)
C22_RenameOnlyOnApply ==
  [][batch.op = "outlier_scan" /\ batch'.runs = batch.runs =>
       /\ DateRenamed =>
            /\ Answering
            /\ past'.choice[1] \in ApplyAnswers
            /\ folder' = Moved(folder, batch.prompt[1].filename,
                               batch.prompt[1].proposed_filename)
       /\ (Answering /\ past'.choice[1] \notin ApplyAnswers) =>
            /\ folder' = folder
            /\ report' = report
            /\ batch'.done = batch.done + 1
       /\ ~Answering =>
            /\ report'.date_cleanups = report.date_cleanups
            /\ batch.done < Len(batch.files) =>
                 NewNames \subseteq {clean_trailing_separators(Current)}
       /\ Asking => Answering]_vars

\* C22: the proposal for an entry was answered "y" and the file has the
\* proposed name in the place of its own
C22_Witness ==
  /\ batch.op = "outlier_scan"
  /\ past.choice = <<<<"y">>>>
  /\ Len(report.date_cleanups) = 1
  /\ report.date_cleanups[1].original_filename \in DOMAIN past.before
  /\ report.date_cleanups[1].original_filename \notin DOMAIN folder
  /\ report.date_cleanups[1].cleaned_filename \in DOMAIN folder
  /\ report.date_cleanups[1].cleaned_filename \notin DOMAIN past.before

(***************************************************************************)
(* The proposals of outlier_scan, read off the segments of the name.       *)
(***************************************************************************)
\* the date of the prefix of the name: the text in its first segment when
\* that is a bracketed date, year and month, or year
PrefixDate ==
  IF Tokens[segs[1]].k \in {"iso", "yearmonth", "year"}
        /\ Head(Tokens[segs[1]].s) = "("
  THEN Inner(Tokens[segs[1]])
  ELSE None

\* step 2 of outlier_scan was applied to the name and proposes a change
Proposes == pc = "proposed" /\ outlier.proposed # None

\* the date the proposed name begins with
ProposedDate == SubSeq(outlier.proposed, 2, 11)

\* the dates of the segments after the first that find_embedded_dates knows
\* the shape of
EmbeddedDates ==
  {Tokens[segs[j]].d : j \in {i \in 2..Len(segs) :
     Tokens[segs[i]].k \in {"stamp", "gluedstamp", "spacedstamp", "spaced"}}}

C24_TrimIdempotent ==
  pc = "retrimmed" => outlier.retrimmed = outlier.trimmed

\* the positions after the first segment that hold a token of one of kinds
Later(kinds) == {j \in 2..Len(segs) : Tokens[segs[j]].k \in kinds}

\* the bracketed scanner timestamps after the prefix: right after the text
\* before them, one space after it, or two
Stamps == Later({"stamp", "gluedstamp", "spacedstamp"})

\* the name has a date prefix and, after it, one scanner timestamp of a
\* calendar date other than the prefix date, and no other embedded date
OneStampAfterPrefix ==
  /\ PrefixDate # None
  /\ Cardinality(Stamps) = 1
  /\ Later({"spaced"}) = {}
  /\ \A j \in Stamps : Tokens[segs[j]].d \notin {None, PrefixDate}

(***************************************************************************)
(* C25.  For a name with a date prefix and, after it, one bracketed        *)
(* scanner timestamp YYYY-MMDD_digits of a calendar date other than the    *)
(* prefix date and no other embedded date, find_embedded_dates returns     *)
(* YYYY-MM-DD, with no, one or several whitespace before the bracket.      *)
(***************************************************************************)
C25_StampFound ==
  (pc = "proposed" /\ OneStampAfterPrefix) =>
    \A j \in Stamps : outlier.embedded.date = Tokens[segs[j]].d

\* what follows "(YYYY-MM-DD) " in the proposed name
AfterProposedDate == SubSeq(outlier.proposed, 14, Len(outlier.proposed))

\* the proposed name without its extension
ProposedStem == SubSeq(outlier.proposed, 1, splitext(outlier.proposed) - 1)

\* the proposed name has one date prefix: after "(YYYY-MM-DD) " comes text
\* that is neither a further space or separator nor a further date prefix
OneDatePrefix ==
  /\ AfterProposedDate # <<>>
  /\ Head(AfterProposedDate) \notin WhiteSpace \cup {"-"}
  /\ ~ReMatch(date_prefix, AfterProposedDate).ok

\* the proposed name does not end, before its extension, in a space or a
\* separator
NothingDangling ==
  ProposedStem[Len(ProposedStem)] \notin WhiteSpace \cup {"-"}

(***************************************************************************)
(* C30.  The name outlier_scan proposes for a file that has a date prefix  *)
(* (a year, a year and month, or a full date) begins with exactly one date *)
(* prefix, the old one replaced by the new, and has no dangling separator. *)
(***************************************************************************)
C30_OnePrefixInProposal ==
  (Proposes /\ PrefixDate # None) => OneDatePrefix /\ NothingDangling

\* the operations that walk the root folder
RootOperations == {"scan_pdfs", "clean_dates", "metadata_write", "outlier_scan"}

\* a run of one of RootOperations has come to its end
RunOver == batch.op \in RootOperations /\ batch.done = Len(batch.files)

(***************************************************************************)
(* C26.  A root folder that is missing stops scan_pdfs, clean_dates,       *)
(* metadata_write and outlier_scan at once with a failure of the           *)
(* environment: no run of them over a missing root folder comes to its end *)
(* as a run over zero files.                                               *)
(***************************************************************************)
C26_MissingRootFails ==
  ~(PDF_FOLDER = "missing" /\ RunOver /\ Len(batch.files) = 0)

\* the operations that rewrite documents
Rewriters == {"metadata_write", "clean_metadata_fields", "import_author_metadata"}

\* the step is one entry of the run of a rewriting operation
EntryDone ==
  /\ batch.op \in Rewriters
  /\ batch.done < Len(batch.files)
  /\ batch'.done = batch.done + 1
  /\ batch'.runs = batch.runs

\* the name of the file of the entry the run is at
EntryName == IF batch.op = "import_author_metadata" THEN Current.filename ELSE Current

\* the keys of the metadata the step wrote, none when it rewrote nothing
WriteSet == DOMAIN past'.to_write[Len(past'.to_write)]

\* after the step the document that was under name, under that name or the
\* one it was renamed to, has outside the write set the fields it had
FieldsKept(name) ==
  \A after \in DOMAIN folder' :
    (after # TempOf(name) /\ folder'[after].pages = folder[name].pages) =>
      \A key \in InfoKeys \ WriteSet :
        InfoGet(folder'[after].info, key) = InfoGet(folder[name].info, key)

(***************************************************************************)
(* C27.  Every step of metadata_write, clean_metadata_fields and           *)
(* import_author_metadata on a file leaves the fields of its document      *)
(* outside the set of fields it writes as they were.                       *)
(***************************************************************************)
C27_OtherFieldsKept ==
  [][(EntryDone /\ EntryName \in DOMAIN folder) => FieldsKept(EntryName)]_vars

\* the segments of the name that are bracketed tokens, in their order
Bracketed == SelectSeq(segs, LAMBDA token : Head(Tokens[token].s) \in OpenBracket)

(***************************************************************************)
(* C28.  parse_date_from_parentheses derives its result from the bracketed *)
(* tokens of the filename only: the date inferred is the date inferred for *)
(* the name with the text outside the brackets left out, and it is null    *)
(* for a name with no bracketed token.                                     *)
(***************************************************************************)
C28_OnlyFromBrackets ==
  pc = "inferred" =>
    /\ date = parse_date_from_parentheses(NameOf(Bracketed))
    /\ Bracketed = <<>> => date = None

\* the field of the preview that stands for a key of the metadata
FieldOf(key) ==
  CASE key = "/CreationDate" -> "date"
    [] key = "/Author" -> "author"
    [] key = "/Keywords" -> "tags"
    [] key = "/Title" -> "title"
    [] key = "/Subject" -> "subject"

\* the fields the row of the preview reports as will-write
Reported(row) ==
  {field \in {"date", "author", "tags", "title", "subject"} :
     \/ field = "date" /\ row.will_write_date
     \/ field = "author" /\ row.will_write_author
     \/ field = "tags" /\ row.will_write_tags
     \/ field = "title" /\ row.will_write_title
     \/ field = "subject" /\ row.will_write_subject}

\* the fields of the write set of metadata_write for the document file
\* under name: none for an encrypted file, which it skips
WrittenFor(name, file) ==
  IF IsEncrypted(file) THEN {}
  ELSE {FieldOf(key) : key \in DOMAIN metadata_to_write(name, parse_filename_metadata(name),
                                                        extract_pdf_metadata(file))}

(***************************************************************************)
(* C29.  The dry run previews the write: for every file, the fields its    *)
(* row of metadata_write_dryrun reports as will-write (date, author, tags, *)
(* title, subject) are the fields of the write set of metadata_write for   *)
(* the same filename and document.                                         *)
(***************************************************************************)
C29_DryRunFaithful ==
  batch.op = "metadata_write_dryrun" =>
    \A i \in 1..Len(report.results) :
      Reported(report.results[i])
        = WrittenFor(report.results[i].filename, folder[report.results[i].filename])
====
